---- MODULE Spec2Model ----
(***************************************************************************)
(* ReputeFlow: the chat-driven client agent (agent_fin/client/             *)
(* client_agent_chat.py), the freelancer agent's deliverable command and   *)
(* the ledgers they drive (WorkEscrow, PYUSD, YellowChannelManager).       *)
(*                                                                         *)
(* Units.  Budgets are counted in 10^-4 USD, wei amounts in 10^11 wei and  *)
(* PYUSD amounts in micro-PYUSD, so that                                   *)
(*   int(budget * 0.001 * 10**18) = budget        (budget_wei)             *)
(*   int(budget * 10**6)          = 100 * budget  (amount_pyusd)           *)
(*   1000000000000 wei            = 10            (minimum milestone)      *)
(***************************************************************************)
EXTENDS Integers, Sequences, FiniteSets, TLC

\* ---------------------------------------------------------------- bounds
\* projects created on the ledger
MaxJobs == 2
\* mined transfers into escrow, and mined releases, per job
MaxCount == 2
\* PYUSD units in the client wallet at the start
InitWallet == 7000
\* projects created in the runs with overlapping handlers
MaxOverlapJobs == 1
\* projects created in the runs with cancel
MaxCancelJobs == 1
\* proposals stored per job
MaxProposals == 2
\* projects created in the runs with proposals
MaxProposalJobs == 1
\* projects created in the runs with disputes
MaxDisputeJobs == 1
\* projects created in the runs of one client with one freelancer
MaxEscrowJobs == 2
\* 'show proposals' requests the client agent receives
MaxShows == 2
\* 'find jobs' requests the freelancer agent receives
MaxFinds == 2
\* 'apply job' requests the freelancer agent receives
MaxApplies == 1

\* ChatMessages the client agent receives
MaxChats == 2

\* jobs a user of the conversational client agent posts
MaxActiveJobs == 1

\* texts recorded with their replies, over both conversational agents
MaxLog == 4

\* skills kept in a profile of the conversational freelancer agent
MaxSkills == 2

\* tasks the swarm coordinator records as completed
MaxCompleted == 2
\* DisputeVote requests the validator agent handles
MaxVotes == 3
\* clock ticks after which the vote collection of a dispute times out
DisputeTimeout == 2

\* ------------------------------------------------------------- constants
MIN_MILESTONE_WEI == 10
PYUSD_PER_BUDGET == 100
\* the scores analyze_dispute works with
FREELANCER_SCORE == 75
CLIENT_SCORE == 60
\* validator votes that resolve a dispute (the default)
QUORUM == 1

Users == {"u1", "u2"}
Freelancers == {"fA", "fB"}
Budgets == {0, 7, 33, 50}
LifecycleBudgets == {33}
Posters == {"u1"}
PostBudgets == {0, 33, 50}
Assignees == {"fA"}
ProposalJobs == {1, 2}
ProposalTexts == {"p1"}
JobIds == 1..MaxJobs
Slots == {1, 2}
Outcomes == {"ok", "revert", "raise", "lost"}
NoUser == "nobody"
Urls == {"ipfs1", "ipfs2", "ipfs3"}
NoUrl == ""
NoRounding == {[i \in 1..3 |-> 0]}
AnyRounding == [1..3 -> {0, 1}]
PostedMilestones == {<<>>, <<12, 0, 7>>}
RequestMilestones == {<<>>, <<20>>, <<12, 0, 7>>}
DisputeIds == {1, 2}
Reputations == {30, 50, 80}
EvidenceQualities == {50, 80}
EvidenceFavors == {"freelancer", "client", "none"}
Validators == {"v1", "v2"}
Choices == {"client", "freelancer"}
ResolveJobs == {1}

VARIABLES
    pendingJob,     \* client ctx.storage: pending_job_{sender}
    jobStore,       \* client ctx.storage: job_{id}
    channelStore,   \* client ctx.storage: channel_{id}
    accepting,      \* client ctx.storage: accepting_job_id, accepting_freelancer (accepting_client
                    \* and accepting_budget are written and never read)
    tasks,          \* in-flight handle_chat_message coroutines of the client agent
    running,        \* the coroutine that holds the event loop (0: none)
    nextProjectId,  \* WorkEscrow.nextProjectId
    projects,       \* WorkEscrow projects
    walletBal,      \* PYUSD balance of the client wallet
    escrowBal,      \* PYUSD balance of ESCROW_WALLET
    yellow,         \* YellowChannelManager deposits written by recordDeposit
    paid,           \* PYUSD received by each freelancer
    releases,       \* mined releasePayment(jobId) transactions per job
    moved,          \* mined transfers into escrow made by 'deposit funds: J', per job
    deliverables,   \* freelancer ctx.storage: deliverable_{id}
    yellowBound,    \* whether the global YELLOW_CHANNEL_MANAGER is bound
    cancelRes,      \* WorkEscrow: the outcome of the last cancel of each project
    proposals,      \* storage agent ctx.storage: proposals_job_{id}
    proposalsResp,  \* the last ProposalsResponse the storage agent sent
    flTask,         \* the freelancer agent's handle_chat_message coroutine
    disputes,       \* DisputeResolver: open disputes per project
    disputeRes,     \* DisputeResolver: the outcome of the last raiseDispute per project
    assigned,       \* the freelancer named in the last 'Proposal Accepted' reply for each job
    analysis,       \* the last dispute analysis made, with its inputs
    disputeVotes,   \* validator agent: state.dispute_votes
    votesSubmitted, \* votes the validator agent submitted, per dispute id
    ballots,        \* DisputeCoordinator: the votes collected for each project's dispute
    clock,          \* DisputeCoordinator: time elapsed since the dispute was opened
    resolution,     \* DisputeCoordinator: how each project's dispute was resolved
    viewing,        \* client ctx.storage: proposals_requester, viewing_proposals_job
    getRequests,    \* GetProposalsRequest messages on their way to the storage agent
    respQueue,      \* ProposalsResponse messages on their way to the client agent
    shown,          \* what handle_proposals_response did with each ProposalsResponse
    asked,          \* the 'show proposals' requests handled, in order
    flStore,        \* freelancer agent ctx.storage: the job search and application keys
    net,            \* messages in flight between the freelancer-side agents, per kind
    skillsReqs,     \* FreelancerSkillsRequest messages on their way to the storage agent
    skillsResps,    \* FreelancerSkillsResponse messages on their way to the freelancer agent
    matcherJobs,    \* job matcher ctx.storage: latest_jobs is set
    replies,        \* chat replies the freelancer agent sent to users
    storeQueue,     \* StoreProposal messages on their way to the storage agent
    chats,          \* the ChatMessages the client agent received, with what was sent for each
    chatPc,         \* where the handler of the last of them stands
    clientConv,     \* conversation_states of the conversational client agent
    freelancerConv, \* conversation_states of the conversational freelancer agent
    clientLog,      \* per user, the texts sent to the conversational client agent and its replies
    freelancerLog,  \* the same for the conversational freelancer agent
    activeTasks,    \* swarm coordinator: state.active_tasks
    completedTasks, \* swarm coordinator: state.completed_tasks
    swarmMetrics,   \* swarm coordinator: state.swarm_metrics
    handledAs,      \* how handle_skills_response handled each response
    finds           \* the 'find jobs' requests handled, in order

\* the validator agent and the reasoner
valVars == <<analysis, disputeVotes, votesSubmitted>>

\* the variables beside those of the client agent's chat handlers
\* the DisputeCoordinator
resVars == <<ballots, clock, resolution>>

\* the 'show proposals' round trip between client agent and storage agent
showVars == <<viewing, getRequests, respQueue, shown, asked>>

\* the message flows of the agents other than validator and coordinator
\* the job search and job application flows of the freelancer-side agents
findVars == <<flStore, net, skillsReqs, skillsResps, matcherJobs, replies, handledAs, finds,
              storeQueue>>

\* the chat protocol of the client agent: acknowledgements and replies
chatVars == <<chats, chatPc>>

\* the agents and protocols that share no state with the flows above
\* the conversational client and freelancer agents
convVars == <<clientConv, freelancerConv, clientLog, freelancerLog>>

\* the swarm coordinator
swarmVars == <<activeTasks, completedTasks, swarmMetrics>>

moreVars == <<chatVars, convVars, swarmVars>>

restVars == <<showVars, findVars, moreVars>>

otherVars == <<valVars, resVars, restVars>>
extVars == <<assigned, otherVars>>

sideVars == <<proposals, proposalsResp, flTask, disputes, disputeRes, extVars>>

vars == <<pendingJob, jobStore, channelStore, accepting, tasks, running, nextProjectId,
          projects, walletBal, escrowBal, yellow, paid, releases, moved,
          deliverables, yellowBound, cancelRes, sideVars>>

storeVars == <<pendingJob, jobStore, channelStore, accepting>>
ledgerVars == <<nextProjectId, projects, walletBal, escrowBal, yellow, paid,
                releases, moved>>

\* ---------------------------------------------------------------- helpers
Idle == [pc |-> "idle", sender |-> NoUser, cmd |-> "none", job |-> 0,
         fl |-> "", amt |-> 0, usd |-> 0, ms |-> <<>>, total |-> 0, res |-> "none", tx |-> 0,
         chan |-> [job_id |-> 0, client |-> "", freelancer |-> "", amount |-> 0,
                   status |-> "none", release_tx |-> 0]]

\* no ProposalsResponse sent yet
NoResponse == [job_id |-> 0, proposals |-> <<>>, total_count |-> 0]

\* the freelancer agent's handler is not running
FlIdle == [pc |-> "idle", job |-> 0, url |-> "", res |-> "none"]

NoAccepting == [set |-> FALSE, job_id |-> 0, freelancer |-> ""]

\* the keys proposals_requester and viewing_proposals_job are absent
NoViewing == [set |-> FALSE, requester |-> NoUser, job_id |-> 0]

\* the freelancer agent's storage before any command: no job search, no
\* application, no cached jobs
NoSearch == [initiated |-> FALSE, requester |-> NoUser, applying |-> 0,
             applicant |-> NoUser, wallet |-> FALSE, latest_jobs |-> FALSE]

\* the kinds of message in flight: JobFetchRequest of the freelancer agent and
\* of the matcher, JobData to each of them, the FreelancerSkillsResponse
\* forwarded to the matcher, MatchedJobs, EnhancedJobMatchResult,
\* and GenerateProposalRequest
Kinds == {"fetch_fl", "fetch_m", "jobdata_fl", "jobdata_m", "skills_m", "matched",
          "enhanced", "genreq"}

\* no freelancer was named for the job
NoFreelancer == ""

\* no dispute analysis was made yet
NoAnalysis == [by |-> "none", enabled |-> TRUE, freelancer |-> 0, client |-> 0, evidence_quality |-> 0,
               evidence_favors |-> "none", vote |-> "none", confidence |-> 0]

\* dict assignment d[k] = v
Put(d, k, v) == [x \in (DOMAIN d) \cup {k} |-> IF x = k THEN v ELSE d[x]]

RECURSIVE SumSeq(_)
SumSeq(s) == IF s = <<>> THEN 0 ELSE Head(s) + SumSeq(Tail(s))

\* budget_wei = int(budget * 0.001 * 10**18)
BudgetWei(budget) == budget

\* a split that takes 30% for the last milestone instead of the remainder
SplitMilestones_NoRemainder(budget_wei) ==
    LET m1 == (budget_wei * 3) \div 10
        m2 == (budget_wei * 4) \div 10
    IN  <<m1, m2, m1>>

\* the 30% / 40% / remainder split of 'post job'
SplitMilestones(budget_wei) ==
    LET m1 == (budget_wei * 3) \div 10
        m2 == (budget_wei * 4) \div 10
        m3 == budget_wei - m1 - m2
    IN  <<m1, m2, m3>>

\* int((wei / 10**18) * 10**18): the float round trip truncates, so it returns
\* the amount or one unit less (r is the rounding outcome)
ToWei(amount, r) == IF amount > 0 THEN amount - r ELSE amount

\* minimum-amount adjustment of post_job_on_chain
ClampMin(amount_wei) ==
    IF amount_wei < MIN_MILESTONE_WEI THEN MIN_MILESTONE_WEI ELSE amount_wei

\* milestone_amounts of post_job_on_chain for the milestones of job_data
MilestoneAmounts(ms, rs) == [i \in DOMAIN ms |-> ClampMin(ToWei(ms[i], rs[i]))]

\* total_budget_wei, accumulated in the same loop after the adjustment
TotalBudgetWei(ms, rs) == SumSeq(MilestoneAmounts(ms, rs))

\* job_data as 'post job' builds it (the amounts are kept in wei here; the
\* code stores wei / 10**18 as a float)
JobData(sender, budget) ==
    [client |-> sender, budget |-> budget, budget_wei |-> BudgetWei(budget),
     milestones |-> SplitMilestones(BudgetWei(budget))]

\* amount_pyusd = int(amount_usd * 10**6)
AmountPyusd(amount_usd) == amount_usd * PYUSD_PER_BUDGET

\* the event loop can run coroutine t: no other coroutine holds it
Resume(t) == running \in {0, t}

\* a call that is not awaited returns as if it had been awaited: the coroutine gives up the loop
KeepRunning_Awaits(t) == running' = 0

\* a call that is not awaited (the web3 calls are synchronous): the coroutine
\* keeps the event loop until its next await
KeepRunning(t) == running' = t

\* the branch is done: response_text is set and the handler reaches its final
\* await ctx.send
Finish(t, result) ==
    /\ tasks' = [tasks EXCEPT ![t].pc = "reply", ![t].res = result]
    /\ running' = 0

Mine(o) == o \in {"ok", "lost"}

\* ------------------------------------------------------------------ Init
Init ==
    /\ pendingJob = <<>>
    /\ jobStore = <<>>
    /\ channelStore = <<>>
    /\ accepting = NoAccepting
    /\ tasks = [t \in Slots |-> Idle]
    /\ running = 0
    /\ nextProjectId = 1
    /\ projects = <<>>
    /\ walletBal = InitWallet
    /\ escrowBal = 0
    /\ yellow = <<>>
    /\ paid = [f \in Freelancers |-> 0]
    /\ releases = [j \in JobIds |-> 0]
    /\ moved = [j \in JobIds |-> 0]
    /\ deliverables = <<>>
    /\ yellowBound \in BOOLEAN
    /\ cancelRes = [j \in JobIds |-> "none"]
    /\ proposals = <<>>
    /\ proposalsResp = NoResponse
    /\ flTask = FlIdle
    /\ disputes = [j \in JobIds |-> 0]
    /\ disputeRes = [j \in JobIds |-> "none"]
    /\ assigned = [j \in JobIds |-> NoFreelancer]
    /\ analysis = NoAnalysis
    /\ disputeVotes = 0
    /\ votesSubmitted = [d \in DisputeIds |-> 0]
    /\ ballots = [j \in JobIds |-> {}]
    /\ clock = [j \in JobIds |-> 0]
    /\ resolution = [j \in JobIds |-> "none"]
    /\ viewing = NoViewing
    /\ getRequests = <<>>
    /\ respQueue = <<>>
    /\ shown = <<>>
    /\ asked = <<>>
    /\ flStore = NoSearch
    /\ net = [k \in Kinds |-> 0]
    /\ skillsReqs = <<>>
    /\ skillsResps = <<>>
    /\ matcherJobs = FALSE
    /\ replies = <<>>
    /\ storeQueue = <<>>
    /\ chats = <<>>
    /\ chatPc = "idle"
    /\ clientConv = <<>>
    /\ freelancerConv = <<>>
    /\ clientLog = [u \in Users |-> <<>>]
    /\ freelancerLog = [u \in Users |-> <<>>]
    /\ activeTasks = <<>>
    /\ completedTasks = <<>>
    /\ swarmMetrics = [total_agents |-> 0, total_tasks |-> 0, success_rate |-> 0]
    /\ handledAs = <<>>
    /\ finds = <<>>

\* ------------------------------------------------- the agent's event loop
\* The agent takes the next ChatMessage from its queue when the handler of the
\* previous one has returned.
DispatchAllowed == \A t \in Slots : tasks[t].pc = "idle"

\* handle_chat_message up to its first await: the ChatAcknowledgement is sent
\* and the command is parsed
Receive(t, u, c, j, f, b, D) ==
    /\ running = 0
    /\ D
    /\ tasks[t].pc = "idle"
    /\ \A t2 \in Slots : t2 < t => tasks[t2].pc # "idle"
    /\ tasks' = [tasks EXCEPT ![t] = [Idle EXCEPT !.pc = "start", !.sender = u,
                                        !.cmd = c, !.job = j, !.fl = f, !.amt = b]]
    /\ UNCHANGED <<storeVars, running, ledgerVars, deliverables, yellowBound, cancelRes, sideVars>>

ReceivePostJob(t, B, D, N) ==
    /\ nextProjectId <= N
    /\ \E u \in Posters, b \in B : Receive(t, u, "post", 0, "", b, D)

ReceiveAccept(t, U, F, D) ==
    \E u \in U, j \in JobIds, f \in F : Receive(t, u, "accept", j, f, 0, D)

ReceiveDeposit(t, U, D) ==
    \E u \in U, j \in JobIds : Receive(t, u, "deposit", j, "", 0, D)

ReceiveApprove(t, U, D) ==
    \E u \in U, j \in JobIds : Receive(t, u, "approve", j, "", 0, D)

\* the final await ctx.send(sender, ChatMessage(...)) of handle_chat_message
Reply(t) ==
    /\ Resume(t)
    /\ tasks[t].pc = "reply"
    /\ tasks' = [tasks EXCEPT ![t] = Idle]
    /\ UNCHANGED <<storeVars, running, ledgerVars, deliverables, yellowBound, cancelRes, sideVars>>

\* the agent process dies: coroutines and their locals are lost, ctx.storage
\* (a file) and the ledgers stay
Crash ==
    /\ \E t \in Slots : tasks[t].pc # "idle"
    /\ tasks' = [t \in Slots |-> Idle]
    /\ running' = 0
    /\ UNCHANGED <<storeVars, ledgerVars, deliverables, yellowBound, cancelRes, sideVars>>

\* -------------------------------------------------------------- post job
\* 'post job' up to the read of nextProjectId in post_job_on_chain
PostPrepare(t, R, N) ==
    /\ Resume(t)
    /\ tasks[t].pc = "start" /\ tasks[t].cmd = "post"
    /\ nextProjectId <= N
    /\ LET job_data == JobData(tasks[t].sender, tasks[t].amt) IN
        /\ pendingJob' = Put(pendingJob, tasks[t].sender, job_data)
        /\ \E rs \in R :
            tasks' = [tasks EXCEPT ![t].pc = "post_tx",
                                   ![t].ms = MilestoneAmounts(job_data.milestones, rs),
                                   ![t].total = TotalBudgetWei(job_data.milestones, rs),
                                   ![t].job = nextProjectId]
    /\ KeepRunning(t)
    /\ UNCHANGED <<jobStore, channelStore, accepting, ledgerVars, deliverables, yellowBound, cancelRes, sideVars>>

\* handle_job_post_request up to the read of nextProjectId in
\* post_job_on_chain: the handler has no await before the call, the milestones
\* are those of the JobPostRequest
JobPostRequestPrepare(t, M, R, N) ==
    /\ running = 0
    /\ DispatchAllowed
    /\ tasks[t].pc = "idle"
    /\ \A t2 \in Slots : t2 < t => tasks[t2].pc # "idle"
    /\ nextProjectId <= N
    /\ \E u \in Posters, ms \in M, rs \in R :
           tasks' = [tasks EXCEPT ![t] = [Idle EXCEPT !.pc = "post_tx", !.sender = u,
                                           !.cmd = "post_request",
                                           !.ms = MilestoneAmounts(ms, rs),
                                           !.total = TotalBudgetWei(ms, rs),
                                           !.job = nextProjectId]]
    /\ KeepRunning(t)
    /\ UNCHANGED <<storeVars, ledgerVars, deliverables, yellowBound, cancelRes, sideVars>>

\* milestone_descriptions is found empty and post_job_on_chain returns
\* without sending a transaction
NoMilestones_Unchecked(ms) == FALSE

\* the check 'if not milestone_descriptions' of post_job_on_chain
NoMilestones(ms) == ms = <<>>

\* WorkEscrow.createProject as the ledger executes it
LedgerCreateProject(client, freelancer, amounts, total) ==
    /\ projects' = Put(projects, nextProjectId,
                       [client |-> client, freelancer |-> freelancer,
                        totalBudget |-> total, milestoneAmounts |-> amounts,
                        status |-> "Created"])
    /\ nextProjectId' = nextProjectId + 1

\* createProject is sent and its receipt awaited; on success job_{id} is stored
PostTx(t) ==
    /\ Resume(t)
    /\ tasks[t].pc = "post_tx"
    /\ \E o \in Outcomes :
        /\ IF Mine(o) /\ ~NoMilestones(tasks[t].ms)
              THEN LedgerCreateProject("wallet", "wallet", tasks[t].ms, tasks[t].total)
              ELSE UNCHANGED <<projects, nextProjectId>>
        /\ IF o = "ok" /\ ~NoMilestones(tasks[t].ms)
              THEN /\ IF tasks[t].cmd = "post"
                         THEN jobStore' = Put(jobStore, tasks[t].job,
                                              [job_id |-> tasks[t].job,
                                               client |-> tasks[t].sender,
                                               budget |-> tasks[t].amt])
                         ELSE UNCHANGED jobStore
                   /\ Finish(t, "posted")
              ELSE /\ UNCHANGED jobStore
                   /\ Finish(t, "post_failed")
    /\ UNCHANGED <<pendingJob, channelStore, accepting, walletBal, escrowBal, yellow, paid,
                   releases, moved, deliverables, yellowBound, cancelRes, sideVars>>

\* ------------------------------------------------------- accept proposal
\* update_freelancer_in_contract: no ledger call is made, a placeholder
\* transaction hash is returned with success
UpdateFreelancerInContract(job_id, freelancer) == TRUE

\* the accepting_* keys written by 'accept proposal: J F'
AcceptRecord(t) ==
    [set |-> TRUE, job_id |-> tasks[t].job, freelancer |-> tasks[t].fl]

\* the 'accept proposal' branch: one synchronous section
AcceptBody(t) ==
    /\ Resume(t)
    /\ tasks[t].pc = "start" /\ tasks[t].cmd = "accept"
    /\ IF tasks[t].job \notin DOMAIN jobStore
          THEN /\ UNCHANGED <<accepting, assigned>>
               /\ Finish(t, "job_not_found")
          ELSE /\ accepting' = AcceptRecord(t)
               /\ IF UpdateFreelancerInContract(tasks[t].job, tasks[t].fl)
                     THEN /\ Finish(t, "accepted")
                          /\ assigned' = [assigned EXCEPT ![tasks[t].job] = tasks[t].fl]
                     ELSE /\ Finish(t, "accept_failed")
                          /\ UNCHANGED assigned
    /\ UNCHANGED <<pendingJob, jobStore, channelStore, ledgerVars, deliverables, yellowBound,
                   cancelRes, proposals, proposalsResp, flTask, disputes, disputeRes, otherVars>>

\* --------------------------------------------------------- deposit funds
\* the freelancer deposit_pyusd_to_escrow takes from storage
DepositFreelancer == accepting.freelancer

\* 'deposit funds: J' up to the first transaction of deposit_pyusd_to_escrow
DepositPrepare(t) ==
    /\ Resume(t)
    /\ tasks[t].pc = "start" /\ tasks[t].cmd = "deposit"
    /\ IF tasks[t].job \notin DOMAIN jobStore
          THEN Finish(t, "job_not_found")
          ELSE LET amount == AmountPyusd(jobStore[tasks[t].job].budget) IN
               IF ~accepting.set
                  THEN Finish(t, "accept_first")
               ELSE IF walletBal < amount
                  THEN Finish(t, "insufficient_balance")
               ELSE IF ~yellowBound
                  THEN Finish(t, "exception")
               ELSE /\ tasks' = [tasks EXCEPT ![t].pc = "dep_approve", ![t].amt = amount,
                                              ![t].usd = jobStore[tasks[t].job].budget,
                                              ![t].fl = DepositFreelancer]
                    /\ KeepRunning(t)
    /\ UNCHANGED <<storeVars, ledgerVars, deliverables, yellowBound, cancelRes, sideVars>>

\* step 1: PYUSD approve(ESCROW_WALLET, amount)
DepositApprove(t) ==
    /\ Resume(t)
    /\ tasks[t].pc = "dep_approve"
    /\ \E o \in Outcomes :
        CASE o = "ok" -> /\ tasks' = [tasks EXCEPT ![t].pc = "dep_transfer"]
                         /\ KeepRunning(t)
          [] o = "revert" -> Finish(t, "approval_failed")
          [] OTHER -> Finish(t, "exception")
    /\ UNCHANGED <<storeVars, ledgerVars, deliverables, yellowBound, cancelRes, sideVars>>

\* PYUSD transfer(ESCROW_WALLET, amount) as the token executes it
LedgerTransfer(j, amount) ==
    /\ walletBal' = walletBal - amount
    /\ escrowBal' = escrowBal + amount
    /\ moved' = [moved EXCEPT ![j] = @ + 1]

\* step 2: PYUSD transfer(ESCROW_WALLET, amount)
DepositTransfer(t) ==
    /\ Resume(t)
    /\ tasks[t].pc = "dep_transfer"
    /\ moved[tasks[t].job] < MaxCount
    /\ \E o \in Outcomes :
        /\ Mine(o) => walletBal >= tasks[t].amt
        /\ IF Mine(o) THEN LedgerTransfer(tasks[t].job, tasks[t].amt)
                      ELSE UNCHANGED <<walletBal, escrowBal, moved>>
        /\ CASE o = "ok" -> /\ tasks' = [tasks EXCEPT ![t].pc = "dep_record"]
                            /\ KeepRunning(t)
             [] o = "revert" -> Finish(t, "transfer_failed")
             [] OTHER -> Finish(t, "exception")
    /\ UNCHANGED <<storeVars, nextProjectId, projects, yellow, paid, releases,
                   deliverables, yellowBound, cancelRes, sideVars>>

\* the channel_{job_id} record stored by a successful deposit
ChannelRecord(t) ==
    [job_id |-> tasks[t].job, client |-> "wallet", freelancer |-> tasks[t].fl,
     amount |-> tasks[t].usd, status |-> "escrowed", release_tx |-> 0]

\* whether deposit_pyusd_to_escrow goes on to store the channel after recordDeposit
RecordContinues(o) == o \in {"ok", "revert"}

\* step 3: YellowChannelManager.recordDeposit, then the channel record is stored
DepositRecord(t) ==
    /\ Resume(t)
    /\ tasks[t].pc = "dep_record"
    /\ \E o \in Outcomes :
        /\ IF Mine(o)
              THEN yellow' = Put(yellow, tasks[t].job,
                                 [freelancer |-> tasks[t].fl, amount |-> tasks[t].amt])
              ELSE UNCHANGED yellow
        /\ IF RecordContinues(o)
              THEN /\ channelStore' = Put(channelStore, tasks[t].job, ChannelRecord(t))
                   /\ Finish(t, "deposited")
              ELSE /\ UNCHANGED channelStore
                   /\ Finish(t, "exception")
    /\ UNCHANGED <<pendingJob, jobStore, accepting, nextProjectId, projects, walletBal, escrowBal,
                   paid, releases, moved, deliverables, yellowBound, cancelRes, sideVars>>

\* ---------------------------------------------------- approve deliverable
\* the check of the 'approve deliverable' branch before release_escrow_funds is
\* called: an escrow record exists and is not yet released
MayRelease(chan) == chan.status # "released"

\* ctx.storage.get of channel_{job_id}: no record when the key is absent
NoChannel == Idle.chan

StoredChannel(j) == IF j \in DOMAIN channelStore THEN channelStore[j] ELSE NoChannel

\* a branch that releases without looking for the escrow record
NoEscrowFound_Unchecked(chan) == FALSE

\* the check 'if not channel_data_json' of the approve branch
NoEscrowFound(chan) == chan = NoChannel

\* 'approve deliverable: J' up to the releasePayment transaction
ApprovePrepare(t) ==
    /\ Resume(t)
    /\ tasks[t].pc = "start" /\ tasks[t].cmd = "approve"
    /\ LET chan == StoredChannel(tasks[t].job) IN
       IF NoEscrowFound(chan)
          THEN Finish(t, "no_escrow")
          ELSE IF ~MayRelease(chan)
                  THEN Finish(t, "already_released")
               ELSE IF escrowBal < AmountPyusd(chan.amount)
                  THEN Finish(t, "insufficient_escrow")
               ELSE /\ tasks' = [tasks EXCEPT ![t].pc = "rel_tx", ![t].chan = chan]
                    /\ KeepRunning(t)
    /\ UNCHANGED <<storeVars, ledgerVars, deliverables, yellowBound, cancelRes, sideVars>>

\* YellowChannelManager.releasePayment(jobId) as the ledger executes it: the
\* recorded amount goes from the escrow to the recorded freelancer
LedgerReleaseEnabled(j) == j \in DOMAIN yellow /\ escrowBal >= yellow[j].amount

LedgerRelease(j) ==
    /\ escrowBal' = escrowBal - yellow[j].amount
    /\ paid' = [paid EXCEPT ![yellow[j].freelancer] = @ + yellow[j].amount]
    /\ releases' = [releases EXCEPT ![j] = @ + 1]

\* release_tx_hash of the releasePayment transaction being mined: the n-th
\* release transaction of the job
ReleaseTxRef(j) == releases[j] + 1

\* release_escrow_funds: releasePayment(job_id) is sent and its receipt awaited
ReleaseTx(t) ==
    /\ Resume(t)
    /\ tasks[t].pc = "rel_tx"
    /\ releases[tasks[t].job] < MaxCount
    /\ \E o \in Outcomes :
        /\ Mine(o) => LedgerReleaseEnabled(tasks[t].job)
        /\ IF Mine(o) THEN LedgerRelease(tasks[t].job)
                      ELSE UNCHANGED <<escrowBal, paid, releases>>
        /\ CASE o = "ok" -> /\ tasks' = [tasks EXCEPT ![t].pc = "rel_store",
                                                         ![t].tx = ReleaseTxRef(tasks[t].job)]
                            /\ KeepRunning(t)
             [] o = "revert" -> Finish(t, "release_failed")
             [] OTHER -> Finish(t, "exception")
    /\ UNCHANGED <<storeVars, nextProjectId, projects, walletBal, yellow, moved,
                   deliverables, yellowBound, cancelRes, sideVars>>

\* the channel record is marked released and written back
ReleaseStore(t) ==
    /\ Resume(t)
    /\ tasks[t].pc = "rel_store"
    /\ channelStore' = Put(channelStore, tasks[t].job,
                           [tasks[t].chan EXCEPT !.status = "released",
                                                 !.release_tx = tasks[t].tx])
    /\ Finish(t, "released")
    /\ UNCHANGED <<pendingJob, jobStore, accepting, ledgerVars, deliverables, yellowBound, cancelRes, sideVars>>

\* ------------------------------------- freelancer agent: submit deliverable
\* a handler that keeps the record of an earlier submission
SubmittedRecord_KeepFirst(j, url) ==
    IF j \in DOMAIN deliverables
       THEN deliverables[j]
       ELSE [job_id |-> j, url |-> url, status |-> "submitted"]

\* deliverable_data of the 'submit deliverable' branch
SubmittedRecord(j, url) == [job_id |-> j, url |-> url, status |-> "submitted"]

\* the freelancer agent's handle_chat_message up to its first await, for a
\* 'submit deliverable' text (url is NoUrl when the text has no second part)
FlReceive(j, url) ==
    /\ flTask.pc = "idle"
    /\ flTask' = [FlIdle EXCEPT !.pc = "start", !.job = j, !.url = url]
    /\ UNCHANGED <<storeVars, tasks, running, ledgerVars, deliverables, yellowBound,
                   cancelRes, proposals, proposalsResp, disputes, disputeRes, extVars>>

\* the 'submit deliverable' branch
SubmitBody ==
    /\ flTask.pc = "start"
    /\ IF flTask.url = NoUrl
          THEN /\ flTask' = [flTask EXCEPT !.pc = "reply", !.res = "bad_format"]
               /\ UNCHANGED deliverables
          ELSE /\ deliverables' = Put(deliverables, flTask.job,
                                      SubmittedRecord(flTask.job, flTask.url))
               /\ flTask' = [flTask EXCEPT !.pc = "reply", !.res = "submitted"]
    /\ UNCHANGED <<storeVars, tasks, running, ledgerVars, yellowBound,
                   cancelRes, proposals, proposalsResp, disputes, disputeRes, extVars>>

\* the final await ctx.send of the freelancer agent's handler
FlReply ==
    /\ flTask.pc = "reply"
    /\ flTask' = FlIdle
    /\ UNCHANGED <<storeVars, tasks, running, ledgerVars, deliverables, yellowBound,
                   cancelRes, proposals, proposalsResp, disputes, disputeRes, extVars>>

\* 'submit deliverable: J url' of the freelancer agent (its own process)
SubmitDeliverable(j, url) ==
    /\ IF j \in DOMAIN deliverables THEN deliverables[j].url # url ELSE TRUE
    /\ deliverables' = Put(deliverables, j, SubmittedRecord(j, url))
    /\ UNCHANGED <<storeVars, tasks, running, ledgerVars, yellowBound, cancelRes, sideVars>>

\* --------------------------------- client_agent.py: FreelancerSelection
\* milestone_amounts of handle_freelancer_selection: each amount through to_wei
SelectionAmounts(ms, rs) == [i \in DOMAIN ms |-> ToWei(ms[i], rs[i])]

\* handle_freelancer_selection of the message-driven client agent (its own
\* process): the project is created from the milestones of the posted job
\* with total_budget = sum(milestone_amounts)
HandleFreelancerSelection(ms, f) ==
    /\ nextProjectId <= MaxJobs
    /\ \E rs \in AnyRounding :
        LET milestone_amounts == SelectionAmounts(ms, rs) IN
        LedgerCreateProject("wallet", f, milestone_amounts, SumSeq(milestone_amounts))
    /\ UNCHANGED <<storeVars, tasks, running, walletBal, escrowBal, yellow, paid, releases,
                   moved, deliverables, yellowBound, cancelRes, sideVars>>

\* ------------------------------------------- storage agent: proposals
\* proposals_json loaded, or [] when the key is absent
StoredProposals(j) == IF j \in DOMAIN proposals THEN proposals[j] ELSE <<>>

\* proposal_data of store_proposal_handler (estimated_hours and timestamp are
\* carried along unchanged and left out)
ProposalRecord(f, text) == [freelancer_address |-> f, proposal_text |-> text]

\* store_proposal_handler: the proposal is appended to proposals_job_{job_id}
StoreProposalHandler(j, f, text) ==
    /\ Len(StoredProposals(j)) < MaxProposals
    /\ proposals' = Put(proposals, j, Append(StoredProposals(j), ProposalRecord(f, text)))
    /\ UNCHANGED <<storeVars, tasks, running, ledgerVars, deliverables, yellowBound,
                   cancelRes, proposalsResp, flTask, disputes, disputeRes, extVars>>

\* ProposalData(...) built from a stored proposal
ProposalData(p) ==
    [freelancer_address |-> p.freelancer_address, proposal_text |-> p.proposal_text]

\* a listing that leaves out the last stored proposal
ListedProposals_DropLast(j) ==
    IF j \in DOMAIN proposals /\ proposals[j] # <<>>
       THEN [i \in 1..(Len(proposals[j]) - 1) |-> ProposalData(proposals[j][i])]
       ELSE <<>>

\* the proposals list of get_proposals_handler
ListedProposals(j) ==
    IF j \in DOMAIN proposals
       THEN [i \in DOMAIN proposals[j] |-> ProposalData(proposals[j][i])]
       ELSE <<>>

\* the ProposalsResponse of get_proposals_handler for a job
ProposalsResponseFor(j) ==
    [job_id |-> j, proposals |-> ListedProposals(j), total_count |-> Len(ListedProposals(j))]

\* get_proposals_handler: the ProposalsResponse is sent to the requester
GetProposalsHandler(j) ==
    /\ proposalsResp' = ProposalsResponseFor(j)
    /\ UNCHANGED <<storeVars, tasks, running, ledgerVars, deliverables, yellowBound,
                   cancelRes, proposals, flTask, disputes, disputeRes, extVars>>

\* ------------------------------- show proposals: client and storage agent
\* a 'show proposals: J' chat message is taken by the client agent
ReceiveShow(t, U, D) ==
    /\ Len(asked) < MaxShows
    /\ \A t2 \in Slots : tasks[t2].cmd # "show"
    /\ \E u \in U, j \in ProposalJobs : Receive(t, u, "show", j, "", 0, D)

\* the 'show proposals' branch: the requester and the job are stored under
\* their two keys and the GetProposalsRequest is sent to the storage agent
ShowBody(t) ==
    /\ Resume(t)
    /\ tasks[t].pc = "start" /\ tasks[t].cmd = "show"
    /\ viewing' = [set |-> TRUE, requester |-> tasks[t].sender, job_id |-> tasks[t].job]
    /\ getRequests' = Append(getRequests, tasks[t].job)
    /\ asked' = Append(asked, [user |-> tasks[t].sender, job_id |-> tasks[t].job])
    /\ Finish(t, "fetching")
    /\ UNCHANGED <<storeVars, ledgerVars, deliverables, yellowBound, cancelRes,
                   proposals, proposalsResp, flTask, disputes, disputeRes, assigned,
                   valVars, resVars, findVars, moreVars, respQueue, shown>>

\* get_proposals_handler for the oldest GetProposalsRequest in flight: the
\* response goes back to the sender, the client agent
GetProposalsServe ==
    /\ getRequests # <<>>
    /\ proposalsResp' = ProposalsResponseFor(Head(getRequests))
    /\ respQueue' = Append(respQueue, ProposalsResponseFor(Head(getRequests)))
    /\ getRequests' = Tail(getRequests)
    /\ UNCHANGED <<storeVars, tasks, running, ledgerVars, deliverables, yellowBound, cancelRes,
                   proposals, flTask, disputes, disputeRes, assigned,
                   valVars, resVars, findVars, moreVars, viewing, shown, asked>>

\* handle_proposals_response for the oldest ProposalsResponse in flight: it is
\* dropped when no requester is stored, else the proposals are sent to the
\* stored requester and the two keys are removed
HandleProposalsResponse ==
    /\ respQueue # <<>>
    /\ LET msg == Head(respQueue) IN
       IF ~viewing.set
          THEN /\ shown' = Append(shown, [to |-> NoUser, job_id |-> msg.job_id,
                                          total_count |-> msg.total_count])
               /\ UNCHANGED viewing
          ELSE /\ shown' = Append(shown, [to |-> viewing.requester, job_id |-> msg.job_id,
                                          total_count |-> msg.total_count])
               /\ viewing' = NoViewing
    /\ respQueue' = Tail(respQueue)
    /\ UNCHANGED <<storeVars, tasks, running, ledgerVars, deliverables, yellowBound, cancelRes,
                   proposals, proposalsResp, flTask, disputes, disputeRes, assigned,
                   valVars, resVars, findVars, moreVars, getRequests, asked>>

\* --------------------- freelancer agent, job fetcher, matcher, AI model
\* everything but the job search and application flows
nonFindVars == <<storeVars, tasks, running, ledgerVars, deliverables, yellowBound, cancelRes,
                 proposals, proposalsResp, flTask, disputes, disputeRes, assigned,
                 valVars, resVars, showVars, moreVars>>

\* one more, or one less, message of a kind in flight
Sent(k) == [net EXCEPT ![k] = @ + 1]
Moved(from, to) == [net EXCEPT ![from] = @ - 1, ![to] = @ + 1]
Taken(k) == [net EXCEPT ![k] = @ - 1]

\* a chat reply of one of the flows
ChatReply(to, kind) == [to |-> to, kind |-> kind, job_id |-> 0]

\* the reply 'Proposal submitted for Job #J'
SubmittedReply(to, job_id) == [to |-> to, kind |-> "proposal_submitted", job_id |-> job_id]

\* the 'find jobs' branch of the freelancer agent's handle_chat_message, from
\* the acknowledgement on: the three search keys are set and a JobFetchRequest
\* is sent; no reply is sent now
FindJobs(u) ==
    /\ Len(finds) < MaxFinds
    /\ flStore' = [flStore EXCEPT !.initiated = TRUE, !.requester = u]
    /\ net' = Sent("fetch_fl")
    /\ finds' = Append(finds, u)
    /\ UNCHANGED <<nonFindVars, storeQueue, skillsReqs, skillsResps, matcherJobs, replies, handledAs>>

\* the 'apply job: J' branch: the application keys are set and the
\* freelancer's skills are requested from the storage agent
ApplyJob(u, j) ==
    /\ Len(SelectSeq(handledAs, LAMBDA h : h.for = "apply"))
         + Len(SelectSeq(skillsReqs, LAMBDA r : r = "apply"))
         + Len(SelectSeq(skillsResps, LAMBDA r : r.for = "apply")) < MaxApplies
    /\ flStore' = [flStore EXCEPT !.applying = j, !.applicant = u, !.wallet = TRUE]
    /\ skillsReqs' = Append(skillsReqs, "apply")
    /\ UNCHANGED <<nonFindVars, storeQueue, net, skillsResps, matcherJobs, replies, handledAs, finds>>

\* job fetcher, fetch_request_handler: the JobData goes back to the sender
FetchRequestHandler(from, to) ==
    /\ net[from] > 0
    /\ net' = Moved(from, to)
    /\ UNCHANGED <<nonFindVars, storeQueue, flStore, skillsReqs, skillsResps, matcherJobs, replies,
                   handledAs, finds>>

\* job fetcher, fetch_and_send (every 60 s): jobs found on the ledger are sent
\* to the matcher
FetchAndSend ==
    /\ ~matcherJobs /\ net["jobdata_m"] = 0
    /\ net' = Sent("jobdata_m")
    /\ UNCHANGED <<nonFindVars, storeQueue, flStore, skillsReqs, skillsResps, matcherJobs, replies,
                   handledAs, finds>>

\* freelancer agent, handle_jobs_received: the jobs are cached and forwarded
\* to the matcher, then the skills of current_freelancer are requested
HandleJobsReceived ==
    /\ net["jobdata_fl"] > 0
    /\ IF ~flStore.initiated
          THEN /\ net' = Taken("jobdata_fl")
               /\ UNCHANGED <<flStore, skillsReqs>>
          ELSE /\ flStore' = [flStore EXCEPT !.latest_jobs = TRUE]
               /\ net' = Moved("jobdata_fl", "jobdata_m")
               /\ IF flStore.requester = NoUser
                     THEN UNCHANGED skillsReqs
                     ELSE skillsReqs' = Append(skillsReqs, "search")
    /\ UNCHANGED <<nonFindVars, storeQueue, skillsResps, matcherJobs, replies, handledAs, finds>>

\* storage agent, skills_request_handler: the skills stored for the freelancer
\* are sent back (found says whether there are any)
SkillsRequestHandler ==
    /\ skillsReqs # <<>>
    /\ \E found \in BOOLEAN :
           skillsResps' = Append(skillsResps, [for |-> Head(skillsReqs), found |-> found])
    /\ skillsReqs' = Tail(skillsReqs)
    /\ UNCHANGED <<nonFindVars, storeQueue, flStore, net, matcherJobs, replies, handledAs, finds>>

\* which flow handle_skills_response takes a response for
SkillsResponseIsFor(store) ==
    IF store.applying # 0 THEN "apply"
    ELSE IF store.initiated THEN "search"
    ELSE "ignored"

\* the application keys removed by handle_skills_for_application:
\* applying_job_id and applying_freelancer; applying_wallet stays
ApplicationDropped(store) == [store EXCEPT !.applying = 0, !.applicant = NoUser]

\* the clean-up of handle_proposal_generated: all three keys are removed
ApplicationCleaned(store) ==
    [store EXCEPT !.applying = 0, !.applicant = NoUser, !.wallet = FALSE]

\* freelancer agent, handle_skills_response, with handle_skills_for_application
HandleSkillsResponse ==
    /\ skillsResps # <<>>
    /\ LET msg == Head(skillsResps)
           as == SkillsResponseIsFor(flStore) IN
       /\ handledAs' = Append(handledAs, [for |-> msg.for, as |-> as])
       /\ CASE as = "apply" ->
                  IF ~msg.found
                     THEN /\ replies' = Append(replies, ChatReply(flStore.applicant, "no_skills_apply"))
                          /\ flStore' = ApplicationDropped(flStore)
                          /\ UNCHANGED net
                  ELSE IF ~flStore.latest_jobs
                     THEN /\ replies' = Append(replies, ChatReply(flStore.applicant, "no_jobs_available"))
                          /\ flStore' = ApplicationDropped(flStore)
                          /\ UNCHANGED net
                  ELSE \E job_details \in BOOLEAN :
                          IF job_details
                             THEN /\ net' = Sent("genreq")
                                  /\ UNCHANGED <<replies, flStore>>
                             ELSE /\ replies' = Append(replies, ChatReply(flStore.applicant, "job_not_found"))
                                  /\ flStore' = ApplicationDropped(flStore)
                                  /\ UNCHANGED net
            [] as = "search" ->
                  IF ~msg.found
                     THEN /\ replies' = IF flStore.requester # NoUser
                                            THEN Append(replies, ChatReply(flStore.requester, "no_skills"))
                                            ELSE replies
                          /\ flStore' = [flStore EXCEPT !.initiated = FALSE, !.requester = NoUser]
                          /\ UNCHANGED net
                     ELSE /\ net' = Sent("skills_m")
                          /\ UNCHANGED <<replies, flStore>>
            [] OTHER -> UNCHANGED <<replies, flStore, net>>
    /\ skillsResps' = Tail(skillsResps)
    /\ UNCHANGED <<nonFindVars, storeQueue, skillsReqs, matcherJobs, finds>>

\* freelancer agent, handle_proposal_generated, for a ProposalGenerated that
\* answers a GenerateProposalRequest and names job_id: on success a
\* StoreProposal is sent to the storage agent and the applicant is told
\* 'Proposal submitted' in the same handler; then the application keys are
\* removed
HandleProposalGenerated(success, job_id) ==
    /\ net["genreq"] > 0
    /\ net' = Taken("genreq")
    /\ storeQueue' = IF success THEN Append(storeQueue, job_id) ELSE storeQueue
    /\ replies' = Append(replies, IF success THEN SubmittedReply(flStore.applicant, job_id)
                                             ELSE ChatReply(flStore.applicant, "proposal_failed"))
    /\ flStore' = ApplicationCleaned(flStore)
    /\ UNCHANGED <<nonFindVars, skillsReqs, skillsResps, matcherJobs, handledAs, finds>>

\* storage agent, store_proposal_handler, for the StoreProposal the
\* freelancer agent sent: the proposal is appended to proposals_job_{job_id}
StoreProposalDelivered ==
    /\ storeQueue # <<>>
    /\ LET j == Head(storeQueue) IN
         proposals' = Put(proposals, j, Append(StoredProposals(j), ProposalRecord("fA", "p1")))
    /\ storeQueue' = Tail(storeQueue)
    /\ UNCHANGED <<storeVars, tasks, running, ledgerVars, deliverables, yellowBound, cancelRes,
                   proposalsResp, flTask, disputes, disputeRes, assigned, valVars, resVars,
                   showVars, moreVars, flStore, net, skillsReqs, skillsResps, matcherJobs, replies,
                   handledAs, finds>>

\* job matcher, handle_jobs_for_matching: the jobs are stored
HandleJobsForMatching ==
    /\ net["jobdata_m"] > 0
    /\ net' = Taken("jobdata_m")
    /\ matcherJobs' = TRUE
    /\ UNCHANGED <<nonFindVars, storeQueue, flStore, skillsReqs, skillsResps, replies, handledAs, finds>>

\* the check 'if not jobs_str' of handle_matched_jobs_for_freelancer
NoJobsStored(stored) == ~stored

\* job matcher, handle_matched_jobs_for_freelancer: without stored jobs a
\* JobFetchRequest is sent and the handler returns, else the MatchedJobs go to
\* the AI model
HandleMatchedJobsForFreelancer ==
    /\ net["skills_m"] > 0
    /\ net' = IF NoJobsStored(matcherJobs) THEN Moved("skills_m", "fetch_m")
                                           ELSE Moved("skills_m", "matched")
    /\ UNCHANGED <<nonFindVars, storeQueue, flStore, skillsReqs, skillsResps, matcherJobs, replies,
                   handledAs, finds>>

\* AI model, handle_matched_jobs: the enhanced result goes to the freelancer agent
HandleMatchedJobs ==
    /\ net["matched"] > 0
    /\ net' = Moved("matched", "enhanced")
    /\ UNCHANGED <<nonFindVars, storeQueue, flStore, skillsReqs, skillsResps, matcherJobs, replies,
                   handledAs, finds>>

\* freelancer agent, handle_enhanced_results: the result is sent to the stored
\* requester, if there is one, and the requester keys are removed
HandleEnhancedResults ==
    /\ net["enhanced"] > 0
    /\ net' = Taken("enhanced")
    /\ IF flStore.requester # NoUser
          THEN /\ replies' = Append(replies, ChatReply(flStore.requester, "results"))
               /\ flStore' = [flStore EXCEPT !.requester = NoUser]
          ELSE UNCHANGED <<replies, flStore>>
    /\ UNCHANGED <<nonFindVars, storeQueue, skillsReqs, skillsResps, matcherJobs, handledAs, finds>>

\* ------------------------- client agent: acknowledgement and reply
\* the state of the flows above
flowVars == <<storeVars, tasks, running, ledgerVars, deliverables, yellowBound, cancelRes,
              proposals, proposalsResp, flTask, disputes, disputeRes, assigned,
              valVars, resVars, showVars, findVars>>

\* the command branches of handle_chat_message
ChatCmds == {"post", "balance", "jobs", "show", "accept", "deposit", "approve", "help", "other"}

\* what an operation called by a branch can do
BranchOutcomes == {"ok", "fail", "raise"}

\* the branch is not inside a try/except and calls something that can raise:
\* 'check balance' reads three balances over RPC; 'my jobs', 'help' and the
\* fallback read the agent's own storage or build a constant text
RaisesOutOfHandler(cmd, wallet, o) == cmd = "balance" /\ wallet /\ o = "raise"

ChatRecord(u, cmd) == [sender |-> u, cmd |-> cmd, acks |-> 1, replies |-> 0, done |-> FALSE]

\* handle_chat_message up to the parsing of the command: the
\* ChatAcknowledgement is the first thing sent
ChatReceive(u, cmd) ==
    /\ chatPc = "idle"
    /\ Len(chats) < MaxChats
    /\ chats' = Append(chats, ChatRecord(u, cmd))
    /\ chatPc' = "branch"
    /\ UNCHANGED <<flowVars, convVars, swarmVars>>

\* the command branch: it sets response_text, or an exception leaves the
\* handler before the final send (wallet: get_wallet_address() returned one)
ChatBranch ==
    /\ chatPc = "branch"
    /\ \E wallet \in BOOLEAN, o \in BranchOutcomes :
          IF RaisesOutOfHandler(chats[Len(chats)].cmd, wallet, o)
             THEN /\ chats' = [chats EXCEPT ![Len(chats)].done = TRUE]
                  /\ chatPc' = "idle"
             ELSE /\ chatPc' = "reply"
                  /\ UNCHANGED chats
    /\ UNCHANGED <<flowVars, convVars, swarmVars>>

\* the final await ctx.send(sender, ChatMessage(...)); the handler returns
ChatSendReply ==
    /\ chatPc = "reply"
    /\ chats' = [chats EXCEPT ![Len(chats)].replies = @ + 1, ![Len(chats)].done = TRUE]
    /\ chatPc' = "idle"
    /\ UNCHANGED <<flowVars, convVars, swarmVars>>

\* ------------------------------------- conversational client agent
\* the details a text can carry: a budget ('$5000'), a duration ('4 weeks'),
\* a number of known skills; 0 when the text has none
JobBudget == 5000
JobWeeks == 4

\* a text, as far as detect_intent, extract_job_details and handle_post_job
\* look at it: whether it has one of the setup words, one of the job posting
\* words, one of 'yes', 'post', 'publish', 'confirm', and the details
\* (no details, a budget alone, or all three)
ClientDetails == {<<0, 0, 0>>, <<JobBudget, 0, 0>>, <<JobBudget, JobWeeks, 1>>}
ClientTexts ==
    {[setup_words |-> s, post_words |-> p, confirm_words |-> c,
      budget |-> d[1], duration |-> d[2], skills |-> d[3]] :
        s \in BOOLEAN, p \in BOOLEAN, c \in BOOLEAN, d \in ClientDetails}

\* detect_intent: the first group of words found decides; the intents after
\* post_job lead to handlers that leave profile and current job alone
ClientIntent(text) ==
    IF text.setup_words THEN "client_setup"
    ELSE IF text.post_words THEN "post_job"
    ELSE "other"

\* JobPosting() and ConversationState() as constructed
FreshJob == [description |-> FALSE, budget |-> 0, duration |-> 0, required_skills |-> 0,
             posted |-> FALSE]
FreshClient == [current_step |-> "welcome", setup_complete |-> FALSE, company_name |-> FALSE,
                current_job |-> FreshJob, active_jobs |-> <<>>, last_intent |-> "none"]

\* the key of conversation_states a user's state is kept under
StateKey_Shared(user_id) == "u1"
StateKey(user_id) == user_id

\* get_or_create_state
ClientStateOf(user_id) ==
    IF StateKey(user_id) \in DOMAIN clientConv THEN clientConv[StateKey(user_id)]
                                                ELSE FreshClient

\* handle_client_setup
HandleClientSetup(state) ==
    CASE state.current_step = "welcome" ->
             [state |-> [state EXCEPT !.current_step = "company"], reply |-> <<"welcome">>]
      [] state.current_step = "company" ->
             [state |-> [state EXCEPT !.company_name = TRUE, !.setup_complete = TRUE,
                                      !.current_step = "complete"],
              reply |-> <<"setup_complete">>]
      [] OTHER -> [state |-> state, reply |-> <<"continue_setup">>]

\* the draft lacks a budget, a duration or the required skills
DetailsMissing(job) == job.budget = 0 \/ job.duration = 0 \/ job.required_skills = 0

\* handle_post_job
HandlePostJob(state, text) ==
    LET job == state.current_job IN
    IF ~job.description
       THEN LET draft == [job EXCEPT !.description = TRUE,
                                     !.budget = IF text.budget # 0 THEN text.budget ELSE @,
                                     !.duration = IF text.duration # 0 THEN text.duration ELSE @,
                                     !.required_skills = IF text.skills # 0 THEN text.skills ELSE @]
            IN [state |-> [state EXCEPT !.current_job = draft],
                reply |-> IF DetailsMissing(draft) THEN <<"draft_missing_details">>
                                                   ELSE <<"job_ready">>]
    ELSE IF text.confirm_words
       THEN [state |-> [state EXCEPT !.active_jobs = Append(@, [job EXCEPT !.posted = TRUE]),
                                     !.current_job = FreshJob],
             reply |-> <<"job_posted">>]
    ELSE [state |-> state, reply |-> <<"modify_or_post">>]

\* the handlers of the other intents: the reply shows the profile
HandleClientOther(state) ==
    [state |-> state, reply |-> <<"other", state.company_name, Len(state.active_jobs)>>]

\* process_conversation of the client agent on one state
ClientStep(state, text) ==
    LET intent == ClientIntent(text)
        noted == [state EXCEPT !.last_intent = intent] IN
    IF intent = "client_setup" \/ ~noted.setup_complete THEN HandleClientSetup(noted)
    ELSE IF intent = "post_job" THEN HandlePostJob(noted, text)
    ELSE HandleClientOther(noted)

\* texts recorded so far
LogTotal ==
    LET RECURSIVE Sum(_)
        Sum(U) == IF U = {} THEN 0
                  ELSE LET u == CHOOSE x \in U : TRUE
                       IN Len(clientLog[u]) + Len(freelancerLog[u]) + Sum(U \ {u})
    IN Sum(Users)

\* handle_chat_message of the conversational client agent: the text of user
\* user_id is processed and the reply sent (logged: the exchange is recorded)
ClientProcess(user_id, text, logged) ==
    LET r == ClientStep(ClientStateOf(user_id), text) IN
    /\ Len(r.state.active_jobs) <= MaxActiveJobs
    /\ logged => LogTotal < MaxLog
    /\ clientConv' = Put(clientConv, StateKey(user_id), r.state)
    /\ clientLog' = IF logged
                        THEN [clientLog EXCEPT ![user_id] = Append(@, [text |-> text, reply |-> r.reply])]
                        ELSE clientLog
    /\ UNCHANGED <<flowVars, chatVars, swarmVars, freelancerConv, freelancerLog>>

\* --------------------------------- conversational freelancer agent
\* extract_rate and extract_hours found nothing (None)
NoValue == -1

\* an hourly rate and a number of hours a text can name
SampleRate == 50
SampleHours == 40

\* the intents of detect_intent that process_conversation handles itself or
\* sends to the setup handler; the others go to handlers that leave the
\* profile alone
FreelancerIntents == {"profile_setup", "add_skills", "set_rate", "set_availability", "other"}

\* a text, as far as detect_intent and the extractors look at it: its intent,
\* the number of known skills in it, the rate and the hours found in it
\* ('$0' and '0 hours' are found, as 0)
FreelancerTexts ==
    [intent : FreelancerIntents, skills : {0, 1}, rate : {NoValue, 0, SampleRate},
     hours : {NoValue, 0, SampleHours}]

\* FreelancerProfile() and ConversationState() as constructed
FreshFreelancer == [current_step |-> "welcome", setup_complete |-> FALSE, skills |-> 0,
                    hourly_rate |-> NoValue, availability |-> NoValue, bio |-> FALSE,
                    last_intent |-> "none", handler |-> "none"]

\* the tests 'if skills:', 'if rate:', 'if hours:' on an extracted value
Truthy_NotNone(x) == x # NoValue
Truthy(x) == x # NoValue /\ x # 0

\* profile.skills.extend(skills), up to MaxSkills
Extended(n, k) == IF n + k > MaxSkills THEN MaxSkills ELSE n + k

\* get_or_create_state
FreelancerStateOf(user_id) ==
    IF StateKey(user_id) \in DOMAIN freelancerConv THEN freelancerConv[StateKey(user_id)]
                                                    ELSE FreshFreelancer

\* handle_profile_setup
HandleProfileSetup(state, text) ==
    CASE state.current_step = "welcome" ->
             [state |-> [state EXCEPT !.current_step = "skills"], reply |-> <<"welcome">>]
      [] state.current_step = "skills" ->
             IF text.skills > 0
                THEN [state |-> [state EXCEPT !.skills = Extended(@, text.skills),
                                              !.current_step = "rate"],
                      reply |-> <<"skills_added">>]
                ELSE [state |-> state, reply |-> <<"no_skills_detected">>]
      [] state.current_step = "rate" ->
             IF Truthy(text.rate)
                THEN [state |-> [state EXCEPT !.hourly_rate = text.rate,
                                              !.current_step = "availability"],
                      reply |-> <<"rate_set", text.rate>>]
                ELSE [state |-> state, reply |-> <<"no_rate_found">>]
      [] state.current_step = "availability" ->
             IF Truthy(text.hours)
                THEN [state |-> [state EXCEPT !.availability = text.hours,
                                              !.current_step = "bio"],
                      reply |-> <<"availability_set", text.hours>>]
                ELSE [state |-> state, reply |-> <<"no_hours_detected">>]
      [] state.current_step = "bio" ->
             LET done == [state EXCEPT !.bio = TRUE, !.setup_complete = TRUE,
                                       !.current_step = "complete"]
             IN [state |-> done,
                 reply |-> <<"setup_complete", done.skills, done.hourly_rate, done.availability>>]
      [] OTHER -> [state |-> state, reply |-> <<"continue_setup">>]

\* the handlers of the other intents: the replies show the profile
HandleFreelancerOther(state) ==
    [state |-> state,
     reply |-> <<"other", state.skills, state.hourly_rate, state.availability>>]

\* process_conversation of the freelancer agent on one state (handler: the
\* branch the text was routed to)
FreelancerStep(state, text) ==
    LET noted == [state EXCEPT !.last_intent = text.intent]
        Routed(h, r) == [state |-> [r.state EXCEPT !.handler = h], reply |-> r.reply] IN
    IF text.intent = "profile_setup" \/ ~noted.setup_complete
       THEN Routed("handle_profile_setup", HandleProfileSetup(noted, text))
    ELSE IF text.intent = "add_skills"
       THEN Routed("add_skills",
                   IF text.skills > 0
                      THEN [state |-> [noted EXCEPT !.skills = Extended(@, text.skills)],
                            reply |-> <<"added_skills">>]
                      ELSE [state |-> noted, reply |-> <<"no_skills">>])
    ELSE IF text.intent = "set_rate"
       THEN Routed("set_rate",
                   IF Truthy(text.rate)
                      THEN [state |-> [noted EXCEPT !.hourly_rate = text.rate],
                            reply |-> <<"rate_updated", text.rate>>]
                      ELSE [state |-> noted, reply |-> <<"specify_rate">>])
    ELSE IF text.intent = "set_availability"
       THEN Routed("set_availability",
                   IF Truthy(text.hours)
                      THEN [state |-> [noted EXCEPT !.availability = text.hours],
                            reply |-> <<"availability_updated", text.hours>>]
                      ELSE [state |-> noted, reply |-> <<"specify_hours">>])
    ELSE Routed("other", HandleFreelancerOther(noted))

\* handle_chat_message of the conversational freelancer agent
FreelancerProcess(user_id, text, logged) ==
    LET r == FreelancerStep(FreelancerStateOf(user_id), text) IN
    /\ logged => LogTotal < MaxLog
    /\ freelancerConv' = Put(freelancerConv, StateKey(user_id), r.state)
    /\ freelancerLog' = IF logged
                            THEN [freelancerLog EXCEPT
                                    ![user_id] = Append(@, [text |-> text, reply |-> r.reply])]
                            ELSE freelancerLog
    /\ UNCHANGED <<flowVars, chatVars, swarmVars, clientConv, clientLog>>

\* ------------------------------------------------ swarm coordinator
\* task ids and agent addresses of TaskAssignment and TaskCompletion messages
TaskIds == {"t1", "t2"}
SwarmAgents == {"a1", "a2"}

\* the test 'if msg.task_id in state.active_tasks'
IsActive_Unchecked(task_id) == TRUE
IsActive(task_id) == task_id \in DOMAIN activeTasks

\* state.active_tasks.pop(task_id): the entry (none when there is no such
\* key) and the dictionary without it
PoppedTask(task_id) ==
    IF task_id \in DOMAIN activeTasks THEN activeTasks[task_id]
                                       ELSE [agent |-> "none", status |-> "none"]
WithoutTask(task_id) == [k \in DOMAIN activeTasks \ {task_id} |-> activeTasks[k]]

\* successful / len(completed_tasks), in percent
SuccessRate(completed) ==
    IF completed = <<>> THEN 0
    ELSE (Len(SelectSeq(completed, LAMBDA t : t.success)) * 100) \div Len(completed)

\* handle_task_assignment: the task is entered under its id (an entry with
\* the same id is replaced) and the message forwarded to the agent
HandleTaskAssignment(task_id, agent_address) ==
    /\ activeTasks' = Put(activeTasks, task_id, [agent |-> agent_address, status |-> "assigned"])
    /\ UNCHANGED <<flowVars, chatVars, convVars, completedTasks, swarmMetrics>>

\* handle_task_completion (task_id of a completed entry: the id it was
\* popped under, kept for the record)
HandleTaskCompletion(task_id, agent_address, success) ==
    /\ IF IsActive(task_id)
          THEN LET task == PoppedTask(task_id)
                   completed == Append(completedTasks,
                                       [agent |-> task.agent, status |-> task.status,
                                        success |-> success, task_id |-> task_id])
               IN /\ Len(completedTasks) < MaxCompleted
                  /\ activeTasks' = WithoutTask(task_id)
                  /\ completedTasks' = completed
                  /\ swarmMetrics' = [swarmMetrics EXCEPT !.total_tasks = @ + 1,
                                                          !.success_rate = SuccessRate(completed)]
          ELSE UNCHANGED <<activeTasks, completedTasks, swarmMetrics>>
    /\ UNCHANGED <<flowVars, chatVars, convVars>>

\* ------------------------------------------------ WorkEscrow: cancel
\* cancel is blocked once a release of the project's funds has been mined
CancelBlocked_Never(j) == FALSE

CancelBlocked(j) == releases[j] > 0

\* the escrowed and unreleased funds of project j
Refundable(j) ==
    IF j \in DOMAIN yellow /\ escrowBal >= yellow[j].amount THEN yellow[j].amount ELSE 0

\* cancel(project_id) on the ledger
Cancel(j) ==
    /\ j \in DOMAIN projects
    /\ IF projects[j].status = "Cancelled"
          THEN /\ cancelRes[j] # "invalid_state"
               /\ cancelRes' = [cancelRes EXCEPT ![j] = "invalid_state"]
               /\ UNCHANGED <<projects, walletBal, escrowBal, yellow>>
       ELSE IF CancelBlocked(j)
          THEN /\ cancelRes[j] # "blocked"
               /\ cancelRes' = [cancelRes EXCEPT ![j] = "blocked"]
               /\ UNCHANGED <<projects, walletBal, escrowBal, yellow>>
          ELSE /\ cancelRes' = [cancelRes EXCEPT ![j] = "cancelled"]
               /\ projects' = [projects EXCEPT ![j].status = "Cancelled"]
               /\ walletBal' = walletBal + Refundable(j)
               /\ escrowBal' = escrowBal - Refundable(j)
               /\ yellow' = [k \in (DOMAIN yellow) \ {j} |-> yellow[k]]
    /\ UNCHANGED <<storeVars, tasks, running, nextProjectId, paid, releases, moved,
                   deliverables, yellowBound, sideVars>>

\* ------------------------------------------- DisputeResolver: raiseDispute
\* the job's deliverable was submitted (completed)
Completed(j) == j \in DOMAIN deliverables

\* the job's release was approved: the release was mined or recorded
Approved(j) ==
    \/ releases[j] > 0
    \/ IF j \in DOMAIN channelStore THEN channelStore[j].status = "released" ELSE FALSE

\* a resolver that never finds an open dispute
DisputeOpen_Never(j) == FALSE

\* a dispute is open for the job's milestone
DisputeOpen(j) == disputes[j] > 0

\* raiseDispute(projectId, description) on the ledger
RaiseDispute(j) ==
    /\ disputes[j] < MaxCount
    /\ IF ~(j \in DOMAIN projects /\ Completed(j) /\ ~Approved(j))
          THEN /\ disputeRes[j] # "not_allowed"
               /\ disputeRes' = [disputeRes EXCEPT ![j] = "not_allowed"]
               /\ UNCHANGED disputes
       ELSE IF DisputeOpen(j)
          THEN /\ disputeRes[j] # "existing"
               /\ disputeRes' = [disputeRes EXCEPT ![j] = "existing"]
               /\ UNCHANGED disputes
          ELSE /\ disputeRes' = [disputeRes EXCEPT ![j] = "opened"]
               /\ disputes' = [disputes EXCEPT ![j] = @ + 1]
    /\ UNCHANGED <<storeVars, tasks, running, ledgerVars, deliverables, yellowBound,
                   cancelRes, proposals, proposalsResp, flTask, extVars>>

\* ------------------------------------ DisputeCoordinator: vote, resolve
\* the dispute of project j is open and not yet resolved
Pending(j) == disputes[j] > 0 /\ resolution[j] = "none"

\* the validators that voted on the dispute of project j
Voters(j) == {b[1] : b \in ballots[j]}

\* vote(dispute_id, validator_id, choice, confidence): an unknown dispute and a
\* second vote of the same validator are refused and change nothing
Vote(j, v, choice) ==
    /\ Pending(j)
    /\ v \notin Voters(j)
    /\ ballots' = [ballots EXCEPT ![j] = @ \cup {<<v, choice>>}]
    /\ UNCHANGED <<storeVars, tasks, running, ledgerVars, deliverables, yellowBound, cancelRes,
                   proposals, proposalsResp, flTask, disputes, disputeRes, assigned, valVars, restVars,
                   clock, resolution>>

\* time passes for an open dispute
Tick(j) ==
    /\ Pending(j)
    /\ clock[j] < DisputeTimeout
    /\ clock' = [clock EXCEPT ![j] = @ + 1]
    /\ UNCHANGED <<storeVars, tasks, running, ledgerVars, deliverables, yellowBound, cancelRes,
                   proposals, proposalsResp, flTask, disputes, disputeRes, assigned, valVars, restVars,
                   ballots, resolution>>

\* a vote collection that never times out
TimedOut_Never(j) == FALSE

\* the bounded timeout of the vote collection has elapsed
TimedOut(j) == clock[j] >= DisputeTimeout

\* the votes for a choice
VotesFor(j, choice) == Cardinality({b \in ballots[j] : b[2] = choice})

\* majority vote wins, an exact tie goes to the client
Winner(j) ==
    IF VotesFor(j, "freelancer") > VotesFor(j, "client") THEN "freelancer" ELSE "client"

\* resolve(dispute_id): by quorum, or by timeout without votes to manual
\* review; a resolution for the freelancer approves and releases the funds
Resolve(j) ==
    /\ Pending(j)
    /\ IF Cardinality(ballots[j]) >= QUORUM
          THEN /\ resolution' = [resolution EXCEPT ![j] = Winner(j)]
               /\ IF Winner(j) = "freelancer" /\ LedgerReleaseEnabled(j)
                     THEN LedgerRelease(j)
                     ELSE UNCHANGED <<escrowBal, paid, releases>>
          ELSE /\ TimedOut(j)
               /\ resolution' = [resolution EXCEPT ![j] = "manual_review"]
               /\ UNCHANGED <<escrowBal, paid, releases>>
    /\ UNCHANGED <<storeVars, tasks, running, nextProjectId, projects, walletBal, yellow, moved,
                   deliverables, yellowBound, cancelRes,
                   proposals, proposalsResp, flTask, disputes, disputeRes, assigned, valVars, restVars,
                   ballots, clock>>

\* ------------------------------------- validator agent: dispute votes
\* the vote of analyze_dispute for the two scores
AnalyzeVote(freelancer_score, client_score) ==
    IF freelancer_score > client_score THEN "freelancer" ELSE "client"

\* its confidence, in hundredths
AnalyzeConfidence(freelancer_score, client_score) ==
    IF freelancer_score > client_score
       THEN freelancer_score - client_score
       ELSE client_score - freelancer_score

\* analyze_dispute: the dispute it is given is not read, the scores are fixed
AnalyzeDispute(dispute_id) ==
    [vote |-> AnalyzeVote(FREELANCER_SCORE, CLIENT_SCORE),
     confidence |-> AnalyzeConfidence(FREELANCER_SCORE, CLIENT_SCORE)]

\* handle_dispute_vote_request: the dispute is analysed, the vote is handed to
\* submit_dispute_vote (which sends no transaction) and counted
HandleDisputeVoteRequest(d) ==
    /\ disputeVotes < MaxVotes
    /\ LET decision == AnalyzeDispute(d) IN
        analysis' = [NoAnalysis EXCEPT !.by = "validator",
                                       !.freelancer = FREELANCER_SCORE,
                                       !.client = CLIENT_SCORE,
                                       !.vote = decision.vote,
                                       !.confidence = decision.confidence]
    /\ votesSubmitted' = [votesSubmitted EXCEPT ![d] = @ + 1]
    /\ disputeVotes' = disputeVotes + 1
    /\ UNCHANGED <<storeVars, tasks, running, ledgerVars, deliverables, yellowBound, cancelRes,
                   proposals, proposalsResp, flTask, disputes, disputeRes, assigned, resVars, restVars>>

\* ------------------------------------ metta_reasoning: reason_about_dispute
\* _fallback_dispute
FallbackDispute == [vote |-> "neutral", confidence |-> 30]

\* the evidence-based step: strong evidence decides
EvidenceVote(evidence_quality, evidence_favors) ==
    IF evidence_quality >= 80 /\ evidence_favors \in {"freelancer", "client"}
       THEN evidence_favors
       ELSE "neutral"

\* reason_about_dispute (confidence in hundredths)
ReasonAboutDispute(enabled, freelancer_rep, client_rep, evidence_quality, evidence_favors) ==
    IF ~enabled THEN FallbackDispute
    ELSE LET vote == EvidenceVote(evidence_quality, evidence_favors) IN
         IF vote # "neutral" THEN [vote |-> vote, confidence |-> 85]
         ELSE IF freelancer_rep > client_rep + 20
                 THEN [vote |-> "freelancer", confidence |-> 65]
         ELSE IF client_rep > freelancer_rep + 20
                 THEN [vote |-> "client", confidence |-> 65]
         ELSE [vote |-> "neutral", confidence |-> 50]

\* a caller asks the reasoner about a dispute
Reason(enabled, freelancer_rep, client_rep, evidence_quality, evidence_favors) ==
    /\ LET r == ReasonAboutDispute(enabled, freelancer_rep, client_rep,
                                   evidence_quality, evidence_favors) IN
        analysis' = [by |-> "reasoner", enabled |-> enabled, freelancer |-> freelancer_rep,
                     client |-> client_rep, evidence_quality |-> evidence_quality,
                     evidence_favors |-> evidence_favors,
                     vote |-> r.vote, confidence |-> r.confidence]
    /\ UNCHANGED <<storeVars, tasks, running, ledgerVars, deliverables, yellowBound, cancelRes,
                   proposals, proposalsResp, flTask, disputes, disputeRes, assigned,
                   disputeVotes, votesSubmitted, resVars, restVars>>

\* ------------------------------------------------------------------ Next
Next ==
    \/ \E t \in Slots : ReceivePostJob(t, LifecycleBudgets, DispatchAllowed, MaxJobs)
    \/ \E t \in Slots : ReceiveAccept(t, Users, Freelancers, DispatchAllowed)
    \/ \E t \in Slots : ReceiveDeposit(t, Users, DispatchAllowed)
    \/ \E t \in Slots : ReceiveApprove(t, Users, DispatchAllowed)
    \/ \E t \in Slots : PostPrepare(t, NoRounding, MaxJobs)
    \/ \E t \in Slots : PostTx(t)
    \/ \E t \in Slots : AcceptBody(t)
    \/ \E t \in Slots : DepositPrepare(t)
    \/ \E t \in Slots : DepositApprove(t)
    \/ \E t \in Slots : DepositTransfer(t)
    \/ \E t \in Slots : DepositRecord(t)
    \/ \E t \in Slots : ApprovePrepare(t)
    \/ \E t \in Slots : ReleaseTx(t)
    \/ \E t \in Slots : ReleaseStore(t)
    \/ \E t \in Slots : Reply(t)
    \/ Crash
    \/ \E j \in JobIds : SubmitDeliverable(j, "ipfs1")

Spec == Init /\ [][Next]_vars

\* posting and funding with every budget and rounding outcome
NextFund ==
    \/ \E t \in Slots : ReceivePostJob(t, Budgets, DispatchAllowed, MaxJobs)
    \/ \E t \in Slots : ReceiveAccept(t, Users, Freelancers, DispatchAllowed)
    \/ \E t \in Slots : ReceiveDeposit(t, Users, DispatchAllowed)
    \/ \E t \in Slots : PostPrepare(t, AnyRounding, MaxJobs)
    \/ \E t \in Slots : PostTx(t)
    \/ \E t \in Slots : AcceptBody(t)
    \/ \E t \in Slots : DepositPrepare(t)
    \/ \E t \in Slots : DepositApprove(t)
    \/ \E t \in Slots : DepositTransfer(t)
    \/ \E t \in Slots : DepositRecord(t)
    \/ \E t \in Slots : Reply(t)

SpecFund == Init /\ [][NextFund]_vars

\* posting alone, with every budget and rounding outcome
NextPost ==
    \/ \E t \in Slots : ReceivePostJob(t, PostBudgets, DispatchAllowed, MaxJobs)
    \/ \E ms \in PostedMilestones, f \in Assignees : HandleFreelancerSelection(ms, f)
    \/ \E t \in Slots : PostPrepare(t, AnyRounding, MaxJobs)
    \/ \E t \in Slots : PostTx(t)
    \/ \E t \in Slots : Reply(t)
    \/ Crash

SpecPost == Init /\ [][NextPost]_vars

\* handle_chat_message coroutines started while another one is suspended at an
\* await: the handlers of one agent share one event loop
NextAsync ==
    \/ \E t \in Slots : ReceivePostJob(t, LifecycleBudgets, TRUE, MaxOverlapJobs)
    \/ \E t \in Slots : ReceiveAccept(t, Posters, Assignees, TRUE)
    \/ \E t \in Slots : ReceiveDeposit(t, Posters, TRUE)
    \/ \E t \in Slots : ReceiveApprove(t, Posters, TRUE)
    \/ \E t \in Slots : PostPrepare(t, NoRounding, MaxOverlapJobs)
    \/ \E t \in Slots : PostTx(t)
    \/ \E t \in Slots : AcceptBody(t)
    \/ \E t \in Slots : DepositPrepare(t)
    \/ \E t \in Slots : DepositApprove(t)
    \/ \E t \in Slots : DepositTransfer(t)
    \/ \E t \in Slots : DepositRecord(t)
    \/ \E t \in Slots : ApprovePrepare(t)
    \/ \E t \in Slots : ReleaseTx(t)
    \/ \E t \in Slots : ReleaseStore(t)
    \/ \E t \in Slots : Reply(t)

SpecAsync == Init /\ [][NextAsync]_vars

\* the lifecycle of the client agent together with cancel on the ledger
NextCancel ==
    \/ \E t \in Slots : ReceivePostJob(t, LifecycleBudgets, DispatchAllowed, MaxCancelJobs)
    \/ \E t \in Slots : ReceiveAccept(t, Posters, Assignees, DispatchAllowed)
    \/ \E t \in Slots : ReceiveDeposit(t, Posters, DispatchAllowed)
    \/ \E t \in Slots : ReceiveApprove(t, Posters, DispatchAllowed)
    \/ \E t \in Slots : PostPrepare(t, NoRounding, MaxCancelJobs)
    \/ \E t \in Slots : PostTx(t)
    \/ \E t \in Slots : AcceptBody(t)
    \/ \E t \in Slots : DepositPrepare(t)
    \/ \E t \in Slots : DepositApprove(t)
    \/ \E t \in Slots : DepositTransfer(t)
    \/ \E t \in Slots : DepositRecord(t)
    \/ \E t \in Slots : ApprovePrepare(t)
    \/ \E t \in Slots : ReleaseTx(t)
    \/ \E t \in Slots : ReleaseStore(t)
    \/ \E t \in Slots : Reply(t)
    \/ \E j \in JobIds : Cancel(j)

SpecCancel == Init /\ [][NextCancel]_vars

\* the lifecycle of the client agent and the freelancer's deliverable together
\* with raiseDispute on the ledger
NextDispute ==
    \/ \E t \in Slots : ReceivePostJob(t, LifecycleBudgets, DispatchAllowed, MaxDisputeJobs)
    \/ \E t \in Slots : ReceiveAccept(t, Posters, Assignees, DispatchAllowed)
    \/ \E t \in Slots : ReceiveDeposit(t, Posters, DispatchAllowed)
    \/ \E t \in Slots : ReceiveApprove(t, Posters, DispatchAllowed)
    \/ \E t \in Slots : PostPrepare(t, NoRounding, MaxDisputeJobs)
    \/ \E t \in Slots : PostTx(t)
    \/ \E t \in Slots : AcceptBody(t)
    \/ \E t \in Slots : DepositPrepare(t)
    \/ \E t \in Slots : DepositApprove(t)
    \/ \E t \in Slots : DepositTransfer(t)
    \/ \E t \in Slots : DepositRecord(t)
    \/ \E t \in Slots : ApprovePrepare(t)
    \/ \E t \in Slots : ReleaseTx(t)
    \/ \E t \in Slots : ReleaseStore(t)
    \/ \E t \in Slots : Reply(t)
    \/ \E j \in JobIds : SubmitDeliverable(j, "ipfs1")
    \/ \E j \in JobIds : RaiseDispute(j)

SpecDispute == Init /\ [][NextDispute]_vars

\* creating projects through post_job_on_chain: the chat command and the
\* JobPostRequest message
NextCreate ==
    \/ \E t \in Slots : ReceivePostJob(t, PostBudgets, DispatchAllowed, MaxJobs)
    \/ \E t \in Slots : PostPrepare(t, AnyRounding, MaxJobs)
    \/ \E t \in Slots : JobPostRequestPrepare(t, RequestMilestones, AnyRounding, MaxJobs)
    \/ \E t \in Slots : PostTx(t)
    \/ \E t \in Slots : Reply(t)
    \/ Crash

SpecCreate == Init /\ [][NextCreate]_vars

\* the freelancer agent's deliverable command alone
NextDeliver ==
    \/ \E j \in JobIds, url \in Urls \cup {NoUrl} : FlReceive(j, url)
    \/ SubmitBody
    \/ FlReply

SpecDeliver == Init /\ [][NextDeliver]_vars

\* the storage agent next to the client agent's post and accept commands
NextProposals ==
    \/ \E t \in Slots : ReceivePostJob(t, LifecycleBudgets, DispatchAllowed, MaxProposalJobs)
    \/ \E t \in Slots : ReceiveAccept(t, Posters, Freelancers, DispatchAllowed)
    \/ \E t \in Slots : PostPrepare(t, NoRounding, MaxProposalJobs)
    \/ \E t \in Slots : PostTx(t)
    \/ \E t \in Slots : AcceptBody(t)
    \/ \E t \in Slots : Reply(t)
    \/ \E j \in ProposalJobs, f \in Freelancers, x \in ProposalTexts :
           StoreProposalHandler(j, f, x)
    \/ \E j \in ProposalJobs : GetProposalsHandler(j)

SpecProposals == Init /\ [][NextProposals]_vars

\* the lifecycle of the jobs of one client with one freelancer, one request
\* handled at a time, with crashes of the agent
NextEscrow ==
    \/ \E t \in Slots : ReceivePostJob(t, LifecycleBudgets, DispatchAllowed, MaxEscrowJobs)
    \/ \E t \in Slots : ReceiveAccept(t, Posters, Assignees, DispatchAllowed)
    \/ \E t \in Slots : ReceiveDeposit(t, Posters, DispatchAllowed)
    \/ \E t \in Slots : ReceiveApprove(t, Posters, DispatchAllowed)
    \/ \E t \in Slots : PostPrepare(t, NoRounding, MaxEscrowJobs)
    \/ \E t \in Slots : PostTx(t)
    \/ \E t \in Slots : AcceptBody(t)
    \/ \E t \in Slots : DepositPrepare(t)
    \/ \E t \in Slots : DepositApprove(t)
    \/ \E t \in Slots : DepositTransfer(t)
    \/ \E t \in Slots : DepositRecord(t)
    \/ \E t \in Slots : ApprovePrepare(t)
    \/ \E t \in Slots : ReleaseTx(t)
    \/ \E t \in Slots : ReleaseStore(t)
    \/ \E t \in Slots : Reply(t)
    \/ Crash

SpecEscrow == Init /\ [][NextEscrow]_vars

\* posting, funding and the deliverable together with raiseDispute and the
\* DisputeCoordinator; time passes and a resolution that can be made is made
NextResolve ==
    \/ \E t \in Slots : ReceivePostJob(t, LifecycleBudgets, DispatchAllowed, MaxDisputeJobs)
    \/ \E t \in Slots, j \in ResolveJobs :
           Receive(t, "u1", "accept", j, "fA", 0, DispatchAllowed)
    \/ \E t \in Slots, j \in ResolveJobs :
           Receive(t, "u1", "deposit", j, "", 0, DispatchAllowed)
    \/ \E t \in Slots : PostPrepare(t, NoRounding, MaxDisputeJobs)
    \/ \E t \in Slots : PostTx(t)
    \/ \E t \in Slots : AcceptBody(t)
    \/ \E t \in Slots : DepositPrepare(t)
    \/ \E t \in Slots : DepositApprove(t)
    \/ \E t \in Slots : DepositTransfer(t)
    \/ \E t \in Slots : DepositRecord(t)
    \/ \E t \in Slots : Reply(t)
    \/ \E j \in ResolveJobs : SubmitDeliverable(j, "ipfs1")
    \/ \E j \in ResolveJobs : RaiseDispute(j)
    \/ \E j \in ResolveJobs, v \in Validators, c \in Choices : Vote(j, v, c)
    \/ \E j \in ResolveJobs : Tick(j)
    \/ \E j \in ResolveJobs : Resolve(j)

SpecResolve ==
    /\ Init /\ [][NextResolve]_vars
    /\ \A j \in JobIds : WF_vars(Tick(j)) /\ WF_vars(Resolve(j))

\* 'show proposals' requests of several users, the storage agent's answers
\* and the proposals it stores
NextShow ==
    \/ \E t \in Slots : ReceiveShow(t, Users, DispatchAllowed)
    \/ \E t \in Slots : ShowBody(t)
    \/ \E t \in Slots : Reply(t)
    \/ GetProposalsServe
    \/ HandleProposalsResponse
    \/ \E j \in ProposalJobs, f \in Freelancers, x \in ProposalTexts :
           StoreProposalHandler(j, f, x)

SpecShow == Init /\ [][NextShow]_vars

\* the handlers of the job search
SearchHandlers ==
    \/ FetchRequestHandler("fetch_fl", "jobdata_fl")
    \/ FetchRequestHandler("fetch_m", "jobdata_m")
    \/ HandleJobsReceived
    \/ SkillsRequestHandler
    \/ HandleSkillsResponse
    \/ HandleJobsForMatching
    \/ HandleMatchedJobsForFreelancer
    \/ HandleMatchedJobs
    \/ HandleEnhancedResults

\* 'find jobs' and 'apply job' requests and the handlers they set off
NextFlows ==
    \/ \E u \in Users : FindJobs(u)
    \/ \E u \in Users, j \in JobIds : ApplyJob(u, j)
    \/ FetchAndSend
    \/ SearchHandlers
    \/ \E ok \in BOOLEAN, j \in JobIds : HandleProposalGenerated(ok, j)
    \/ StoreProposalDelivered

SpecFlows == Init /\ [][NextFlows]_vars

\* 'find jobs' requests alone; every message in flight is delivered and handled
NextFind ==
    \/ \E u \in Users : FindJobs(u)
    \/ FetchAndSend
    \/ SearchHandlers

SpecFind == Init /\ [][NextFind]_vars /\ WF_vars(SearchHandlers)

\* 'apply job' requests next to job searches, with the agents of src/ alone:
\* the AI model agent handles MatchedJobs and JobPosted, no agent answers a
\* GenerateProposalRequest; every message in flight is delivered and handled
NextApply ==
    \/ \E u \in Users : FindJobs(u)
    \/ \E u \in Users, j \in JobIds : ApplyJob(u, j)
    \/ FetchAndSend
    \/ SearchHandlers

SpecApply == Init /\ [][NextApply]_vars /\ WF_vars(SearchHandlers)

\* ChatMessages of every command, handled one at a time
NextChat ==
    \/ \E u \in Users, cmd \in ChatCmds : ChatReceive(u, cmd)
    \/ ChatBranch
    \/ ChatSendReply

SpecChat == Init /\ [][NextChat]_vars

\* conversations of the users with the conversational client agent
NextClientConv ==
    \E u \in Users, text \in ClientTexts : ClientProcess(u, text, FALSE)

SpecClientConv == Init /\ [][NextClientConv]_vars

\* conversations of the users with the conversational freelancer agent
NextFreelancerConv ==
    \E u \in Users, text \in FreelancerTexts : FreelancerProcess(u, text, FALSE)

SpecFreelancerConv == Init /\ [][NextFreelancerConv]_vars

\* texts of two users to both conversational agents, each recorded with its
\* reply: a greeting, a job description and a confirmation for the client
\* agent; a text with a skill, a rate and hours, with and without the
\* set_rate intent, for the freelancer agent
RecordedClientTexts ==
    {t \in ClientTexts : ~t.setup_words /\ t.budget = 0 /\ (t.confirm_words => t.post_words)}
RecordedFreelancerTexts ==
    {t \in FreelancerTexts : /\ t.intent \in {"other", "set_rate"} /\ t.skills = 1
                             /\ t.rate = SampleRate /\ t.hours = SampleHours}

NextRecorded ==
    \/ \E u \in Users, text \in RecordedClientTexts : ClientProcess(u, text, TRUE)
    \/ \E u \in Users, text \in RecordedFreelancerTexts : FreelancerProcess(u, text, TRUE)

SpecRecorded == Init /\ [][NextRecorded]_vars

\* TaskAssignment and TaskCompletion messages in any order
NextSwarm ==
    \/ \E id \in TaskIds, a \in SwarmAgents : HandleTaskAssignment(id, a)
    \/ \E id \in TaskIds, a \in SwarmAgents, ok \in BOOLEAN : HandleTaskCompletion(id, a, ok)

SpecSwarm == Init /\ [][NextSwarm]_vars

\* the validator agent's vote handler and the dispute reasoner
NextValidator ==
    \/ \E d \in DisputeIds : HandleDisputeVoteRequest(d)
    \/ \E en \in BOOLEAN, fr \in Reputations, cr \in Reputations,
          eq \in EvidenceQualities, fav \in EvidenceFavors : Reason(en, fr, cr, eq, fav)

SpecValidator == Init /\ [][NextValidator]_vars

\* ================================================================ claims
InFlight(j, pcs) == \E t \in Slots : tasks[t].job = j /\ tasks[t].pc \in pcs

C3_AcceptOnce ==
    [][\A t \in Slots :
         (/\ accepting.set
          /\ tasks[t].pc = "start" /\ tasks[t].cmd = "accept"
          /\ tasks[t].job = accepting.job_id
          /\ tasks[t].fl # accepting.freelancer
          /\ tasks'[t].pc = "reply")
         => (tasks'[t].res = "already_assigned" /\ accepting' = accepting)]_vars

TotalBudgetPyusd(j) == AmountPyusd(projects[j].totalBudget)

C7_MilestonesSumToTotal ==
    /\ \A u \in DOMAIN pendingJob :
           SumSeq(pendingJob[u].milestones) = pendingJob[u].budget_wei
    /\ \A t \in Slots : tasks[t].pc = "post_tx" => SumSeq(tasks[t].ms) = tasks[t].total
    /\ \A j \in DOMAIN projects :
           SumSeq(projects[j].milestoneAmounts) = projects[j].totalBudget

\* C7 witness: a project is on the ledger whose split was inexact in tenths and
\* whose first milestone was raised to the minimum while its second was not
C7_Witness ==
    \E j \in DOMAIN projects :
        /\ Len(projects[j].milestoneAmounts) = 3
        /\ projects[j].milestoneAmounts[1] = MIN_MILESTONE_WEI
        /\ projects[j].milestoneAmounts[2] > MIN_MILESTONE_WEI
        /\ projects[j].totalBudget > 33

InTransition(t) ==
    tasks[t].pc \in {"post_tx", "dep_approve", "dep_transfer", "dep_record", "rel_tx", "rel_store"}

\* C9: no two lifecycle transitions interleave: while a handler is between its
\* read of a job's record and its write back, no other handler takes a step
\* (so none reads or writes the record) and the agent's storage changes only
\* by that handler's own step.
C9_NoInterleaving ==
    [][\A t \in Slots :
         InTransition(t) =>
            /\ \A t2 \in Slots \ {t} : tasks'[t2] = tasks[t2]
            /\ (tasks'[t] = tasks[t] => storeVars' = storeVars)]_vars

\* C9 witness: a release for a job is between its read and its write back
\* while a second approve request for the same job is waiting at its await
C9_Witness ==
    \E t, t2 \in Slots :
        /\ t # t2
        /\ tasks[t].pc = "rel_store"
        /\ tasks[t2].pc = "start" /\ tasks[t2].cmd = "approve"
        /\ tasks[t2].job = tasks[t].job

\* C10: cancel never succeeds once a release of the job's funds has been
\* mined: it then fails as blocked and the project does not become Cancelled;
\* a cancel that succeeds leaves the project Cancelled, and no later step
\* leaves that state.
C10_CancelBlockedAfterRelease ==
    [][\A j \in DOMAIN projects :
         /\ (releases[j] > 0 /\ projects[j].status # "Cancelled")
                => /\ projects'[j].status # "Cancelled"
                   /\ cancelRes'[j] \in {cancelRes[j], "blocked"}
         /\ (cancelRes'[j] = "cancelled" /\ cancelRes'[j] # cancelRes[j])
                => projects'[j].status = "Cancelled"
         /\ projects[j].status = "Cancelled" => projects'[j].status = "Cancelled"]_vars

\* C10 witness: a cancel was blocked on a project whose funds were released
C10_Witness ==
    \E j \in DOMAIN projects :
        /\ releases[j] > 0 /\ cancelRes[j] = "blocked" /\ projects[j].status # "Cancelled"

HasProposal(j, f) ==
    \E i \in DOMAIN StoredProposals(j) : StoredProposals(j)[i].freelancer_address = f

\* C11: accept(J, F) succeeds only if a proposal by F for J was stored before.
C11_AcceptNeedsProposal ==
    [][\A t \in Slots :
         (/\ tasks[t].pc = "start" /\ tasks[t].cmd = "accept"
          /\ tasks'[t].pc = "reply" /\ tasks'[t].res = "accepted")
         => HasProposal(tasks[t].job, tasks[t].fl)]_vars

\* C18: a proposal is appended to J's list only while J's project exists and
\* is in Created with no freelancer accepted; otherwise the list is unchanged.
C18_SubmitOnlyWhileCreated ==
    [][\A j \in ProposalJobs :
         StoredProposals(j)' # StoredProposals(j)
            => /\ j \in DOMAIN projects
               /\ projects[j].status = "Created"
               /\ ~(accepting.set /\ accepting.job_id = j)]_vars

\* C19: listing the proposals of a job changes no stored proposal list and no
\* other stored state, and the response holds exactly the proposals stored so
\* far for that job, with total_count equal to their number.
C19_ListHasNoSideEffects ==
    [][proposalsResp' # proposalsResp
         => /\ proposals' = proposals
            /\ UNCHANGED <<storeVars, ledgerVars, deliverables>>
            /\ proposalsResp'.proposals = StoredProposals(proposalsResp'.job_id)
            /\ proposalsResp'.total_count = Len(StoredProposals(proposalsResp'.job_id))]_vars

\* C19 witness: a listing returned two proposals by different freelancers
C19_Witness ==
    /\ proposalsResp.total_count = 2
    /\ proposalsResp.proposals[1].freelancer_address # proposalsResp.proposals[2].freelancer_address
    /\ proposalsResp.proposals = StoredProposals(proposalsResp.job_id)

\* C13: a deliverable is recorded only for a job that is Active: known on the
\* ledger, funded (an escrow record exists) and not yet released; otherwise
\* the submission is rejected and nothing is recorded.
C13_SubmitOnlyWhenActive ==
    [][deliverables' # deliverables
         => /\ flTask.job \in DOMAIN projects
            /\ flTask.job \in DOMAIN channelStore
            /\ channelStore[flTask.job].status = "escrowed"]_vars

\* C14: a submission leaves exactly one deliverable record for the job, marked
\* submitted, whose evidence reference is the one just submitted, whether or
\* not a record was there before; the records of other jobs are untouched.
C14_ResubmitReplaces ==
    [][(flTask.pc = "start" /\ flTask'.pc = "reply" /\ flTask'.res = "submitted")
         => deliverables' = Put(deliverables, flTask.job,
                                [job_id |-> flTask.job, url |-> flTask.url,
                                 status |-> "submitted"])]_vars

\* C14 witness: a second submission for a job, with another evidence
\* reference than the recorded one, is about to be handled
C14_Witness ==
    /\ flTask.pc = "start" /\ flTask.url # NoUrl
    /\ flTask.job \in DOMAIN deliverables
    /\ IF flTask.job \in DOMAIN deliverables
          THEN deliverables[flTask.job].url # flTask.url
          ELSE FALSE

C16_NoProjectFromNonPositiveAmount ==
    \A t \in Slots :
        (tasks[t].cmd = "post" /\ tasks[t].res = "posted") => tasks[t].amt > 0

\* C17: the id under which a posted job is reported and recorded locally is
\* the id of the project the ledger created for that post (a project created
\* by post_job_on_chain carries the client as its freelancer).
C17_ReportedIdIsLedgerId ==
    \A j \in DOMAIN jobStore :
        /\ j \in DOMAIN projects
        /\ IF j \in DOMAIN projects
              THEN projects[j].freelancer = projects[j].client
              ELSE FALSE

\* C20: a dispute is opened on a job only while its deliverable is submitted
\* and its release not approved, and however often raiseDispute is repeated
\* there is at most one open dispute for it.
C20_OneDisputeWhileCompleted ==
    [][\A j \in JobIds :
         disputes'[j] # disputes[j]
            => /\ Completed(j) /\ ~Approved(j)
               /\ disputes[j] = 0 /\ disputes'[j] = 1]_vars

\* C20 witness: a repeated raiseDispute found the job's one open dispute, and
\* a raise on a job without a deliverable was refused
C20_Witness ==
    \E j, k \in JobIds :
        /\ disputes[j] = 1 /\ disputeRes[j] = "existing"
        /\ disputes[k] = 0 /\ disputeRes[k] = "not_allowed"

\* the support for the two parties is tied in an analysis: equal scores, and no
\* strong evidence for either
Tied(a) ==
    /\ a.by # "none"
    /\ a.freelancer = a.client
    /\ ~(a.evidence_quality >= 80 /\ a.evidence_favors \in {"freelancer", "client"})

\* C21: when the support for client and freelancer is exactly tied, the
\* outcome of the analysis is 'client' and no funds are released.
C21_TieGoesToClient ==
    [][(analysis' # analysis /\ Tied(analysis'))
         => /\ analysis'.vote = "client"
            /\ UNCHANGED <<escrowBal, paid, releases>>]_vars

\* C22: each validator's vote is counted at most once per dispute: the
\* validator agent submits at most one vote for a dispute id.
C22_VoteCountedOnce == \A d \in DisputeIds : votesSubmitted[d] <= 1

EscrowReleased(store, j) ==
    IF j \in DOMAIN store THEN store[j].status = "released" ELSE FALSE

C27_DepositNeedsAcceptForJob ==
    [][\A t \in Slots :
         /\ (/\ tasks[t].pc = "start" /\ tasks[t].cmd = "deposit"
             /\ tasks[t].job \in DOMAIN jobStore
             /\ assigned[tasks[t].job] = NoFreelancer
             /\ tasks'[t].pc \in {"reply", "dep_approve"})
            => (tasks'[t].pc = "reply" /\ tasks'[t].res = "accept_first")
         /\ (tasks[t].pc = "dep_transfer" /\ moved' # moved)
            => assigned[tasks[t].job] # NoFreelancer]_vars

\* C26: a release for job J is attempted only after a deposit for J ended
\* with success: 'approve deliverable: J' without an escrow record answers 'No
\* escrow found' and makes no ledger call, and an escrow record appears only
\* in the last step of a deposit that reports success, after its transfer.
C26_ReleaseOnlyAfterDeposit ==
    [][/\ \A t \in Slots :
            /\ (/\ tasks[t].pc = "start" /\ tasks[t].cmd = "approve"
                /\ tasks[t].job \notin DOMAIN channelStore
                /\ tasks'[t].pc \in {"reply", "rel_tx"})
               => /\ tasks'[t].pc = "reply" /\ tasks'[t].res = "no_escrow"
                  /\ ledgerVars' = ledgerVars
            /\ tasks'[t].pc = "rel_tx"
               => tasks'[t].job \in DOMAIN channelStore /\ moved[tasks'[t].job] > 0
       /\ \A j \in JobIds :
            (j \in DOMAIN channelStore' /\ j \notin DOMAIN channelStore)
               => /\ moved[j] > 0
                  /\ \E t \in Slots : /\ tasks[t].pc = "dep_record" /\ tasks[t].job = j
                                       /\ tasks'[t].res = "deposited"]_vars

\* C26 witness: an approve for a job without escrow record was answered 'No
\* escrow found' while another job, funded by a deposit, has been released
C26_Witness ==
    \E t \in Slots, j \in DOMAIN channelStore :
        /\ tasks[t].pc = "reply" /\ tasks[t].cmd = "approve" /\ tasks[t].res = "no_escrow"
        /\ tasks[t].job \in DOMAIN jobStore /\ tasks[t].job # j
        /\ releases[j] > 0 /\ moved[j] > 0

\* C28: every proposals reply is sent to a user who asked for the proposals
\* of the job it lists, and none is dropped.
C28_ShowRepliesReachRequester ==
    \A i \in DOMAIN shown :
        \E k \in DOMAIN asked :
            asked[k] = [user |-> shown[i].to, job_id |-> shown[i].job_id]

\* C29: a FreelancerSkillsResponse that answers the skills request of a job
\* search is handled as a job search, and one that answers the skills request
\* of an 'apply job' is handled as a job application.
C29_SkillsResponseHandledForItsFlow ==
    \A i \in DOMAIN handledAs : handledAs[i].as = handledAs[i].for

\* the 'find jobs' requests of user u, and the replies sent to u
FindsOf(u) == Len(SelectSeq(finds, LAMBDA x : x = u))
RepliesTo(u) == Len(SelectSeq(replies, LAMBDA r : r.to = u))

\* C30: every 'find jobs' request eventually results in a chat reply to the
\* user who sent it.
C30_FindJobsAnswered ==
    \A u \in Users : \A n \in 1..MaxFinds :
        (FindsOf(u) >= n) ~> (RepliesTo(u) >= n)

\* the chat replies that end an 'apply job' flow
ApplyReplyKinds == {"no_skills_apply", "no_jobs_available", "job_not_found",
                    "proposal_submitted", "proposal_failed"}
ApplyReplies == Len(SelectSeq(replies, LAMBDA r : r.kind \in ApplyReplyKinds))

\* C31: every 'apply job' flow eventually ends with a chat reply to the
\* applicant and with applying_job_id, applying_freelancer and applying_wallet
\* removed from the freelancer agent's storage.
C31_ApplyFlowEnds ==
    (flStore.applying # 0) ~>
        (/\ flStore.applying = 0 /\ flStore.applicant = NoUser /\ ~flStore.wallet
         /\ ApplyReplies > 0)

\* the 'Proposal submitted' replies sent for job j
SubmittedFor(j) ==
    Len(SelectSeq(replies, LAMBDA r : r.kind = "proposal_submitted" /\ r.job_id = j))

\* C32: the freelancer is told 'Proposal submitted for Job J' only after the
\* proposal is present in the storage agent's proposal list for J.
C32_SubmittedOnlyAfterStored ==
    \A j \in JobIds : SubmittedFor(j) <= Len(StoredProposals(j))

\* C33: for every ChatMessage the client agent receives it first sends a
\* ChatAcknowledgement and afterwards exactly one ChatMessage reply: no reply
\* goes out before the acknowledgement, and a handler that has returned has
\* sent exactly one.
C33_AckThenExactlyOneReply ==
    \A i \in DOMAIN chats :
        /\ chats[i].replies > 0 => chats[i].acks = 1
        /\ chats[i].replies <= 1
        /\ chats[i].done => chats[i].acks = 1 /\ chats[i].replies = 1

\* C34: in the conversational client agent a job is marked posted and
\* appended to the client's active jobs only if its budget, duration and
\* required skills have all been set.
C34_PostedJobsHaveDetails ==
    \A k \in DOMAIN clientConv :
        \A i \in DOMAIN clientConv[k].active_jobs :
            ~DetailsMissing(clientConv[k].active_jobs[i])

\* the order of the profile setup
SetupOrder == <<"welcome", "skills", "rate", "availability", "bio", "complete">>
StepIndex(step) == CHOOSE i \in DOMAIN SetupOrder : SetupOrder[i] = step

\* a complete profile has a skill, a rate and an availability
ProfileFilled(st) ==
    /\ st.setup_complete <=> st.current_step = "complete"
    /\ st.setup_complete =>
          /\ st.skills >= 1
          /\ st.hourly_rate # NoValue /\ st.hourly_rate # 0
          /\ st.availability # NoValue /\ st.availability # 0

\* one message: the step stays or advances by one, and a message that
\* changes the state of a profile whose setup is not complete was handled by
\* the setup handler
SetupStepwise(u) ==
    LET old == FreelancerStateOf(u)
        new == FreelancerStateOf(u)' IN
    /\ StepIndex(new.current_step) \in {StepIndex(old.current_step),
                                         StepIndex(old.current_step) + 1}
    /\ (new # old /\ ~old.setup_complete) => new.handler = "handle_profile_setup"

\* C35: the profile setup of the conversational freelancer agent advances in
\* the order welcome, skills, rate, availability, bio, complete, one step per
\* valid input; setup_complete implies at least one skill, a non-zero rate
\* and a non-zero availability; until then every message goes to the setup
\* handler.
C35_SetupInOrderAndComplete ==
    /\ [](\A k \in DOMAIN freelancerConv : ProfileFilled(freelancerConv[k]))
    /\ [][\A u \in Users : SetupStepwise(u)]_vars

\* a profile whose setup is complete has been updated afterwards
C35_Witness ==
    \E k \in DOMAIN freelancerConv :
        /\ freelancerConv[k].setup_complete
        /\ freelancerConv[k].handler = "set_rate"
        /\ freelancerConv[k].last_intent = "set_rate"

\* a conversation of one user alone with the client agent, from a fresh
\* state: the state it ends in and the replies it gets
RECURSIVE ClientAlone(_)
ClientAlone(log) ==
    IF log = <<>> THEN [state |-> FreshClient, replies |-> <<>>]
    ELSE LET before == ClientAlone(SubSeq(log, 1, Len(log) - 1))
             r == ClientStep(before.state, log[Len(log)].text)
         IN [state |-> r.state, replies |-> Append(before.replies, r.reply)]

\* the same with the freelancer agent
RECURSIVE FreelancerAlone(_)
FreelancerAlone(log) ==
    IF log = <<>> THEN [state |-> FreshFreelancer, replies |-> <<>>]
    ELSE LET before == FreelancerAlone(SubSeq(log, 1, Len(log) - 1))
             r == FreelancerStep(before.state, log[Len(log)].text)
         IN [state |-> r.state, replies |-> Append(before.replies, r.reply)]

\* the replies a user got
RepliesOf(log) == [i \in DOMAIN log |-> log[i].reply]

\* the state and the replies of user u are those of u's own texts alone
OwnConversation(u) ==
    /\ ClientStateOf(u) = ClientAlone(clientLog[u]).state
    /\ RepliesOf(clientLog[u]) = ClientAlone(clientLog[u]).replies
    /\ FreelancerStateOf(u) = FreelancerAlone(freelancerLog[u]).state
    /\ RepliesOf(freelancerLog[u]) = FreelancerAlone(freelancerLog[u]).replies

\* C36: conversation state is per user: processing a message of user A never
\* changes the conversation state of another user B, and B's replies do not
\* depend on A's messages.
C36_ConversationsIsolated ==
    /\ [](\A u \in Users : OwnConversation(u))
    /\ [][\A u \in Users :
            (clientLog'[u] = clientLog[u] => ClientStateOf(u)' = ClientStateOf(u))
            /\ (freelancerLog'[u] = freelancerLog[u]
                  => FreelancerStateOf(u)' = FreelancerStateOf(u))]_vars

\* two users have talked to the client agent, one of them also to the
\* freelancer agent, and their states differ
C36_Witness ==
    \E u \in Users, v \in Users :
        /\ u # v
        /\ Len(clientLog[u]) >= 2 /\ Len(clientLog[v]) >= 1 /\ Len(freelancerLog[v]) >= 1
        /\ ClientStateOf(u) # ClientStateOf(v)

\* a task entered completed_tasks in this step: it was active before
CompletedWasActive ==
    completedTasks' # completedTasks =>
        /\ Len(completedTasks') = Len(completedTasks) + 1
        /\ LET c == completedTasks'[Len(completedTasks')] IN
             /\ c.task_id \in DOMAIN activeTasks
             /\ c.agent = activeTasks[c.task_id].agent
             /\ c.task_id \notin DOMAIN activeTasks'

\* a TaskCompletion for a task that is not active changes nothing
InactiveCompletionIgnored ==
    \A id \in TaskIds, a \in SwarmAgents, ok \in BOOLEAN :
        (HandleTaskCompletion(id, a, ok) /\ id \notin DOMAIN activeTasks)
            => UNCHANGED swarmVars

\* C37: in the swarm coordinator swarm_metrics.total_tasks equals the number
\* of entries in completed_tasks, every completed task was active when its
\* completion arrived, and a TaskCompletion whose task_id is not active
\* leaves active_tasks, completed_tasks and the metrics unchanged.
C37_CompletedTasksCounted ==
    /\ [](swarmMetrics.total_tasks = Len(completedTasks))
    /\ [][CompletedWasActive /\ InactiveCompletionIgnored]_vars

\* a task was completed, assigned again under the same id and is active,
\* next to a completed task that failed
C37_Witness ==
    /\ Len(completedTasks) = 2
    /\ completedTasks[1].success /\ ~completedTasks[2].success
    /\ completedTasks[1].task_id \in DOMAIN activeTasks
    /\ swarmMetrics.success_rate = 50

====
